---- MODULE Spec2Model ----
(***************************************************************************)
(* A model of rcombinators: the position-tracked character stream          *)
(* (src/src/state.rs) and the parser combinators built on top of it        *)
(* (src/src/combinators.rs, src/src/primitives.rs).                        *)
(*                                                                         *)
(* Rust values are represented as follows.                                 *)
(*   Option<T>     <<>> for None, <<x>> for Some(x)                        *)
(*   Option<(a,b)> <<>> for None, <<a, b>> for Some((a, b))                *)
(*   char          a one-character string                                  *)
(*   String, Vec   a sequence                                              *)
(*   usize         a natural number below 2^USIZE_BITS                     *)
(***************************************************************************)
EXTENDS Integers, Sequences, FiniteSets, TLC

(***************************************************************************)
(* Bounds of the model.                                                    *)
(***************************************************************************)
\* longest input string
MaxLen == 3
\* most client holds that are unresolved at the same time
MaxHolds == 2

\* the characters inputs are made of
Alphabet == {"a", "b", "c"}

\* width of usize: the narrowest pointer width Rust has a target for
USIZE_BITS == 16
USIZE_MOD == 2 ^ USIZE_BITS
USIZE_MAX == USIZE_MOD - 1

\* state.rs: ParseState::PREFILL_DEFAULT
PREFILL_DEFAULT == 1024

Min2(a, b) == IF a < b THEN a ELSE b

\* all strings over Alphabet of length at most MaxLen
Inputs == UNION {[1..n -> Alphabet] : n \in 0..MaxLen}

\* the two ways the crate is built: with overflow checks (debug) and without
Builds == {"debug", "release"}

VARIABLES
    input,      \* the string the stream was created from
    build,      \* the build profile, which decides what an overflow does
    st,         \* the ParseState
    stopped,    \* "no", or how the thread ended: "panic" or "hang"
    holds,      \* the client's unresolved Hold values, oldest first
    last,       \* what the last operation was and what it returned
    lazy,       \* the parser with Lazy parts the client owns, and their cells
    calls       \* the call of parse() in progress: the calls that wait for a
                \* sub-parser, outermost first, and what happens next

vars == <<input, build, st, stopped, holds, last, lazy, calls>>

(***************************************************************************)
(* state.rs: ParseState                                                    *)
(***************************************************************************)

\* ParseState::new(s). The fields open, lifo and fault are not fields of the
\* struct: they keep a history of the calls, for what is said about them.
\* open is the positions of the holds that were returned by hold() and not
\* yet given to release() or reset(), youngest last; lifo is TRUE as long as
\* every hold given to release() or reset() was the youngest of them; fault
\* is "no" until peek() reaches its unreachable!() or the assertion of
\* undo_next() fails, and names the one that did from then on.
ParseState_new(s) ==
    [buf |-> <<>>, next |-> <<s>>, current |-> 0, global |-> 0,
     oldest_hold_count |-> <<>>, open |-> <<>>, lifo |-> TRUE, fault |-> "no"]

\* Hold::new(ix)
Hold_new(ix) == [ix |-> ix, released |-> FALSE]

\* Hold::defuse
defuse(h) == [h EXCEPT !.released = TRUE]

\* Drop for Hold as it would be without the assertion
Hold_drop_silent(h, panicking) == FALSE

\* Drop for Hold: whether dropping h panics; panicking is
\* std::thread::panicking()
Hold_drop(h, panicking) == ~panicking /\ ~h.released

\* ParseState::index
index(s) == s.current

\* ParseState::hold: the stream afterwards and the Hold returned
hold(s) ==
    LET ohc == s.oldest_hold_count
        s1 == IF ohc = <<>>
              THEN [s EXCEPT !.oldest_hold_count = <<s.global, 1>>]
              ELSE IF s.global = ohc[1]
                   THEN [s EXCEPT !.oldest_hold_count = <<s.global, ohc[2] + 1>>]
                   ELSE s
    IN [s |-> [s1 EXCEPT !.open = Append(@, s.global)], h |-> Hold_new(s.global)]

\* the match on oldest_hold_count that release and reset share
floor_after(s, h) ==
    LET ohc == s.oldest_hold_count
    IN IF ohc # <<>> /\ ohc[1] = h.ix /\ ohc[2] > 1 THEN <<ohc[1], ohc[2] - 1>>
       ELSE IF ohc # <<>> /\ ohc[1] = h.ix /\ ohc[2] = 1 THEN <<>>
       ELSE ohc

\* seq without the last of its elements that are x
WithoutLast(seq, x) ==
    LET js == {j \in 1..Len(seq) : seq[j] = x}
    IN IF js = {} THEN seq
       ELSE LET j == CHOOSE i \in js : \A k \in js : k <= i
            IN SubSeq(seq, 1, j - 1) \o SubSeq(seq, j + 1, Len(seq))

\* the history in open and lifo after h was given to release or reset
resolved(s, h) ==
    IF s.open # <<>> /\ s.open[Len(s.open)] = h.ix
    THEN [s EXCEPT !.open = SubSeq(@, 1, Len(@) - 1)]
    ELSE [s EXCEPT !.open = WithoutLast(@, h.ix), !.lifo = FALSE]

\* ParseState::release
release(s, h) == resolved([s EXCEPT !.oldest_hold_count = floor_after(s, h)], h)

\* reset as it would be had it been written like release: the cursor stays
reset_keeps_cursor(s, h) ==
    [s |-> resolved([s EXCEPT !.oldest_hold_count = floor_after(s, h)], h),
     panic |-> FALSE]

\* ParseState::reset. self.global - h.ix and self.current - (that) are usize
\* subtractions: with overflow checks they panic when negative, without
\* they wrap.
reset(s, h) ==
    LET s1 == resolved([s EXCEPT !.oldest_hold_count = floor_after(s, h)], h)
        d == s.global - h.ix
        dw == d % USIZE_MOD
    IN IF build = "debug" /\ (d < 0 \/ s.current - d < 0)
       THEN [s |-> s1, panic |-> TRUE]
       ELSE [s |-> [s1 EXCEPT !.current = (s.current - dw) % USIZE_MOD,
                              !.global = h.ix],
             panic |-> FALSE]

\* ParseState::finished
finished(s) == s.next = <<>> /\ s.current = Len(s.buf)

\* undo_next as it would be if it stepped back in the buffer only
undo_next_cursor_only(s) ==
    IF ~(s.current > 0) THEN [s |-> s, panic |-> TRUE]
    ELSE [s |-> [s EXCEPT !.current = s.current - 1], panic |-> FALSE]

\* ParseState::undo_next: assert!(self.current > 0) holds in every build
undo_next(s) ==
    IF ~(s.current > 0)
    THEN [s |-> [s EXCEPT !.fault = "undo_next"], panic |-> TRUE]
    ELSE IF build = "debug" /\ s.global = 0 THEN [s |-> s, panic |-> TRUE]
    ELSE [s |-> [s EXCEPT !.current = s.current - 1,
                          !.global = (s.global - 1) % USIZE_MOD],
          panic |-> FALSE]

\* ParseState::prefill: the stream afterwards and the boolean returned
prefill(s, n) ==
    IF s.next # <<>>
    THEN LET src == s.next[1]
             k == Min2(n, Len(src))
         IN [s |-> [s EXCEPT !.buf = s.buf \o SubSeq(src, 1, k),
                             !.next = <<SubSeq(src, k + 1, Len(src))>>],
             b |-> k > 0]
    ELSE [s |-> s, b |-> FALSE]

\* the first branch of next: serve from the buffer
next_buffered(s) ==
    [s |-> [s EXCEPT !.current = s.current + 1, !.global = s.global + 1],
     c |-> <<s.buf[s.current + 1]>>]

\* next after prefill returned pf, as it would be if it counted the read at
\* the end of the input
next_prefilled_counts(pf) ==
    IF pf.b THEN next_buffered(pf.s)
    ELSE [s |-> [pf.s EXCEPT !.next = <<>>, !.current = pf.s.current + 1,
                             !.global = pf.s.global + 1],
          c |-> <<>>]

\* next, after prefill returned pf
next_prefilled(pf) ==
    IF pf.b THEN next_buffered(pf.s)
    ELSE [s |-> [pf.s EXCEPT !.next = <<>>], c |-> <<>>]

\* Iterator::next for ParseState: the stream afterwards and the Option<char>.
\* After a prefill that added characters the recursive call takes the first
\* branch.
next(s) ==
    IF s.current < Len(s.buf) THEN next_buffered(s)
    ELSE next_prefilled(prefill(s, PREFILL_DEFAULT))

\* peek after self.next() returned n, as it would be without the step back
peek_fetched_advances(n) == [s |-> n.s, c |-> n.c, panic |-> FALSE]

\* peek after self.next() returned n, as it would be if it stepped back
\* whatever next() returned: at the end of the input the cursor has not
\* moved, and the subtraction from 0 panics with overflow checks and wraps
\* without
peek_fetched_back_always(n) ==
    IF build = "debug" /\ (n.s.current = 0 \/ n.s.global = 0)
    THEN [s |-> n.s, c |-> n.c, panic |-> TRUE]
    ELSE [s |-> [n.s EXCEPT !.current = (n.s.current - 1) % USIZE_MOD,
                            !.global = (n.s.global - 1) % USIZE_MOD],
          c |-> n.c, panic |-> FALSE]

\* peek, after self.next() returned n
peek_fetched(n) ==
    IF n.c # <<>>
    THEN [s |-> [n.s EXCEPT !.current = n.s.current - 1,
                            !.global = n.s.global - 1],
          c |-> n.c, panic |-> FALSE]
    ELSE [s |-> n.s, c |-> <<>>, panic |-> FALSE]

\* ParseState::peek: the stream afterwards, the Option<char>, and whether
\* unreachable!() was reached
peek(s) ==
    IF s.current < Len(s.buf)
    THEN [s |-> s, c |-> <<s.buf[s.current + 1]>>, panic |-> FALSE]
    ELSE IF s.current = Len(s.buf) /\ s.next # <<>> THEN peek_fetched(next(s))
    ELSE IF s.next = <<>> THEN [s |-> s, c |-> <<>>, panic |-> FALSE]
    ELSE [s |-> [s EXCEPT !.fault = "unreachable"], c |-> <<>>, panic |-> TRUE]

\* s.collect(): the characters next() returns until it returns None
RECURSIVE collect(_)
collect_from(n) == IF n.c = <<>> THEN <<>> ELSE n.c \o collect(n.s)

collect(s) == collect_from(next(s))

(***************************************************************************)
(* parser.rs: ParseError and ParseResult                                   *)
(*   EOF                        <<"EOF">>                                  *)
(*   Fail(msg, pos)             <<"Fail", msg, pos>>                       *)
(*   TransformFail(msg, pos, e) <<"TransformFail", msg, pos, e>>           *)
(*   ExecFail(msg)              <<"ExecFail", msg>>                        *)
(* A call of parse() ends in one of four ways: it returns Ok(v) or Err(e), *)
(* it panics, or it never returns.                                         *)
(***************************************************************************)
EOF_ == <<"EOF">>
Fail(msg, pos) == <<"Fail", msg, pos>>
TransformFail(msg, pos, e) == <<"TransformFail", msg, pos, e>>
ExecFail(msg) == <<"ExecFail", msg>>

\* parser.rs: execerr
execerr(msg) == ExecFail(msg)

Ok(v) == [k |-> "ok", v |-> v]
Err(e) == [k |-> "err", v |-> e]
Panic == [k |-> "panic", v |-> <<>>]
Hang == [k |-> "hang", v |-> <<>>]
Returned(r) == r.k \in {"ok", "err"}

(***************************************************************************)
(* A parser is a record: t names the type, the other fields are the        *)
(* struct's.  parse(p, path, c) is p.parse(st): c.s is the stream, c.log   *)
(* the calls of parse() that have returned so far, each with the place     *)
(* (path) of the parser in the parser the client called, index() before    *)
(* and after, and the result.  The outcome is the result r and the context *)
(* c afterwards.                                                           *)
(***************************************************************************)
Out(r, c) == [r |-> r, c |-> c]

RECURSIVE parse(_, _, _)

\* the outcome of `st.reset(hold); return r`, x being what reset did
rewound(c, x, r) ==
    IF x.panic THEN Out(Panic, c) ELSE Out(r, [c EXCEPT !.s = x.s])

\* char::len_utf8
len_utf8(ch) == IF ch \in {"ü", "ð"} THEN 2 ELSE 1

\* str::len: the length in bytes
RECURSIVE str_len(_)
str_len(str) == IF str = <<>> THEN 0 ELSE len_utf8(Head(str)) + str_len(Tail(str))

\* the loop of StringParser::parse: cs is the rest of the expected string;
\* the outcome is the stream and the number of bytes matched
RECURSIVE StringParser_loop(_, _, _)

\* the loop, after st.next() returned n, as it would be if it counted
\* characters where expect counts bytes
StringParser_matched_chars(cs, n, have) ==
    StringParser_loop(Tail(cs), n.s, have + 1)

\* the loop, after st.next() returned n
StringParser_matched(cs, n, have) ==
    StringParser_loop(Tail(cs), n.s, have + len_utf8(n.c[1]))

\* the loop, after st.peek() returned pk
StringParser_peeked(cs, pk, have) ==
    IF pk.panic THEN [s |-> pk.s, have |-> have, panic |-> TRUE]
    ELSE IF cs = <<>> \/ pk.c = <<>> THEN [s |-> pk.s, have |-> have, panic |-> FALSE]
    ELSE IF <<Head(cs)>> # pk.c THEN [s |-> pk.s, have |-> have, panic |-> FALSE]
    ELSE StringParser_matched(cs, next(pk.s), have)

StringParser_loop(cs, s, have) == StringParser_peeked(cs, peek(s), have)

\* StringParser::parse after the loop ended as l
StringParser_end(p, c, h, l) ==
    IF l.panic THEN Out(Panic, [c EXCEPT !.s = l.s])
    ELSE IF str_len(p.s) = l.have
    THEN Out(Ok(p.s), [c EXCEPT !.s = release(l.s, h)])
    ELSE rewound([c EXCEPT !.s = l.s], reset(l.s, h),
                 Err(Fail("string not matched", index(l.s))))

\* StringParser::parse after st.hold() returned hh
StringParser_held(p, c, hh) ==
    StringParser_end(p, c, hh.h, StringParser_loop(p.s, hh.s, 0))

\* StringParser::parse
StringParser_parse(p, path, c) == StringParser_held(p, c, hold(c.s))

\* char::is_digit(10)
is_digit(ch) == ch \in {"0", "1", "2", "3", "4", "5", "6", "7", "8", "9"}

\* char::to_digit(10) of a digit
to_digit(ch) ==
    (CHOOSE k \in 1..10 :
        <<"0", "1", "2", "3", "4", "5", "6", "7", "8", "9">>[k] = ch) - 1

\* std::num::ParseIntError::description, by the kind of the error
description(kind) ==
    CASE kind = "Empty" -> "cannot parse integer from empty string"
      [] kind = "InvalidDigit" -> "invalid digit found in string"
      [] kind = "PosOverflow" -> "number too large to fit in target type"
      [] kind = "NegOverflow" -> "number too small to fit in target type"

\* the digit loop of from_str as it would be if it stopped at the bound of
\* the type where the value passes it
RECURSIVE from_digits_saturating(_, _, _, _)
from_digits_saturating(ty, digits, positive, acc) ==
    IF digits = <<>> THEN Ok(acc)
    ELSE IF ~is_digit(Head(digits)) THEN Err("InvalidDigit")
    ELSE IF positive /\ acc * 10 + to_digit(Head(digits)) > ty.max
    THEN Ok(ty.max)
    ELSE IF ~positive /\ acc * 10 - to_digit(Head(digits)) < ty.min
    THEN Ok(ty.min)
    ELSE from_digits_saturating(ty, Tail(digits), positive,
                     IF positive THEN acc * 10 + to_digit(Head(digits))
                     ELSE acc * 10 - to_digit(Head(digits)))

\* the digit loop of from_str: acc is the value so far; every step is a
\* checked_mul by 10 and a checked_add (checked_sub for a negative number)
\* in the target type ty
RECURSIVE from_digits(_, _, _, _)
from_digits(ty, digits, positive, acc) ==
    IF digits = <<>> THEN Ok(acc)
    ELSE IF ~is_digit(Head(digits)) THEN Err("InvalidDigit")
    ELSE IF acc * 10 > ty.max THEN Err("PosOverflow")
    ELSE IF acc * 10 < ty.min THEN Err("NegOverflow")
    ELSE IF positive /\ acc * 10 + to_digit(Head(digits)) > ty.max
    THEN Err("PosOverflow")
    ELSE IF ~positive /\ acc * 10 - to_digit(Head(digits)) < ty.min
    THEN Err("NegOverflow")
    ELSE from_digits(ty, Tail(digits), positive,
                     IF positive THEN acc * 10 + to_digit(Head(digits))
                     ELSE acc * 10 - to_digit(Head(digits)))

\* <IType as FromStr>::from_str: an optional sign ("-" only for a signed
\* type), then digits; a lone sign is InvalidDigit (Empty before Rust 1.55)
from_str(ty, str) ==
    IF str = <<>> THEN Err("Empty")
    ELSE IF str = <<"+">> \/ str = <<"-">> THEN Err("InvalidDigit")
    ELSE IF Head(str) = "+" THEN from_digits(ty, Tail(str), TRUE, 0)
    ELSE IF Head(str) = "-" /\ ty.signed THEN from_digits(ty, Tail(str), FALSE, 0)
    ELSE from_digits(ty, str, TRUE, 0)

\* Int::parse: const BUFSIZE
BUFSIZE == 16

\* [' '; BUFSIZE]
Int_blank == [k \in 1..BUFSIZE |-> " "]

\* buf.to_vec() as it would be if it left out the last character
Int_spill_short(buf) == SubSeq(buf, 1, Len(buf) - 1)

\* widebuf = Some(buf.to_vec())
Int_spill(buf) == buf

\* after buf[i] = c; i += 1: the move to widebuf when buf is full
Int_stored(b) ==
    IF b.i >= BUFSIZE THEN [b EXCEPT !.widebuf = <<Int_spill(b.buf)>>] ELSE b

\* a digit c is stored; b is buf, widebuf and i
Int_store(b, ch) ==
    IF b.widebuf = <<>>
    THEN Int_stored([b EXCEPT !.buf[b.i + 1] = ch, !.i = b.i + 1])
    ELSE [b EXCEPT !.widebuf[1] = Append(@, ch), !.i = b.i + 1]

\* the loop that consumes digits: the stream and the buffers at its end
RECURSIVE Int_loop(_, _)

\* after st.undo_next() did u
Int_undone(u, b) == [s |-> u.s, b |-> b, panic |-> u.panic]

\* after st.next() returned n
Int_read(n, b) ==
    IF n.c # <<>> /\ is_digit(n.c[1]) THEN Int_loop(n.s, Int_store(b, n.c[1]))
    ELSE IF n.c # <<>> THEN Int_undone(undo_next(n.s), b)
    ELSE [s |-> n.s, b |-> b, panic |-> FALSE]

Int_loop(s, b) == Int_read(next(s), b)

\* the string handed to from_str
Int_intstr(b) == IF b.widebuf = <<>> THEN SubSeq(b.buf, 1, b.i) ELSE b.widebuf[1]

\* i == 0: st.reset(hold) did x, then the error is made with st.index()
Int_none(c, x) ==
    IF x.panic THEN Out(Panic, c)
    ELSE Out(Err(Fail("no appropriate integer found", index(x.s))),
             [c EXCEPT !.s = x.s])

\* from_str failed with e, as it would be with release in the place of reset
Int_rejected_release(c, h, e) ==
    Out(Err(ExecFail(description(e))), [c EXCEPT !.s = release(c.s, h)])

\* from_str failed with e: st.reset(hold); Err(ExecFail(e.description()))
Int_rejected(c, h, e) == rewound(c, reset(c.s, h), Err(ExecFail(description(e))))

\* after from_str(intstr) returned fr; the call is logged at path \o <<0>>
\* with its argument
Int_converted(c, h, fr) ==
    IF fr.k = "ok" THEN Out(fr, [c EXCEPT !.s = release(c.s, h)])
    ELSE Int_rejected(c, h, fr.v)

\* the call of from_str, added to the log
Int_convert(p, path, c, h, intstr, fr) ==
    Int_converted([c EXCEPT !.log = Append(@,
                      [path |-> Append(path, 0), ix0 |-> index(c.s),
                       ix1 |-> index(c.s), r |-> fr, arg |-> intstr])],
                  h, fr)

\* after the loop ended as l
Int_end(p, path, c, h, l) ==
    IF l.panic THEN Out(Panic, [c EXCEPT !.s = l.s])
    ELSE IF l.b.i = 0 THEN Int_none([c EXCEPT !.s = l.s], reset(l.s, h))
    ELSE Int_convert(p, path, [c EXCEPT !.s = l.s], h, Int_intstr(l.b),
                     from_str(p, Int_intstr(l.b)))

\* after st.hold() returned hh: if i > 0 { st.next(); }, then the loop
Int_held(p, path, c, hh, b) ==
    Int_end(p, path, c, hh.h,
            Int_loop(IF b.i > 0 THEN next(hh.s).s ELSE hh.s, b))

\* a signed type, after st.peek() returned pk
Int_peeked(p, path, c, pk) ==
    IF pk.panic THEN Out(Panic, [c EXCEPT !.s = pk.s])
    ELSE IF pk.c = <<>> THEN Out(Err(EOF_), [c EXCEPT !.s = pk.s])
    ELSE IF pk.c[1] = "-" \/ is_digit(pk.c[1])
    THEN Int_held(p, path, [c EXCEPT !.s = pk.s], hold(pk.s),
                  [buf |-> [Int_blank EXCEPT ![1] = pk.c[1]],
                   widebuf |-> <<>>, i |-> 1])
    ELSE Out(Err(Fail("not start of integer", index(pk.s))),
             [c EXCEPT !.s = pk.s])

\* Int::parse; IType::try_from(-1 as i8).is_ok() is p.signed
Int_parse(p, path, c) ==
    IF p.signed THEN Int_peeked(p, path, c, peek(c.s))
    ELSE Int_held(p, path, c, hold(c.s),
                  [buf |-> Int_blank, widebuf |-> <<>>, i |-> 0])

\* Nothing::parse
Nothing_parse(p, path, c) == Out(Ok(<<>>), c)

\* primitives.rs: MATCHSPEC_MANY_THRESHOLD
MATCHSPEC_MANY_THRESHOLD == 20

\* MatchSpec::new: One(c), Some(Vec) or Many(HashSet), chosen by the length
\* of chars in bytes
MatchSpec_new(chars) ==
    IF str_len(chars) = 1 THEN <<"One", chars[1]>>
    ELSE IF str_len(chars) <= MATCHSPEC_MANY_THRESHOLD THEN <<"Some", chars>>
    ELSE <<"Many", {chars[i] : i \in 1..Len(chars)}>>

\* MatchSpec::matches as it would be if a Vec were compared by its first
\* element only
MatchSpec_matches_first(ms, ch) ==
    CASE ms[1] = "One" -> ch = ms[2]
      [] ms[1] = "Some" -> ms[2] # <<>> /\ ms[2][1] = ch
      [] ms[1] = "Many" -> ch \in ms[2]

\* MatchSpec::matches
MatchSpec_matches(ms, ch) ==
    CASE ms[1] = "One" -> ch = ms[2]
      [] ms[1] = "Some" -> \E i \in 1..Len(ms[2]) : ms[2][i] = ch
      [] ms[1] = "Many" -> ch \in ms[2]

\* OneOf::parse after st.peek() returned pk, as it would be if a match
\* returned the character peeked at and left it in the stream
OneOf_peeked_unconsumed(p, c, pk) ==
    IF pk.panic THEN Out(Panic, [c EXCEPT !.s = pk.s])
    ELSE IF pk.c = <<>> THEN Out(Err(EOF_), [c EXCEPT !.s = pk.s])
    ELSE IF MatchSpec_matches(p.spec, pk.c[1]) # p.negate
    THEN Out(Ok(pk.c[1]), [c EXCEPT !.s = pk.s])
    ELSE Out(Err(Fail("char not matched", index(pk.s))), [c EXCEPT !.s = pk.s])

\* OneOf::parse after st.peek() returned pk; p.spec is self.0 and p.negate
\* is self.1
OneOf_peeked(p, c, pk) ==
    IF pk.panic THEN Out(Panic, [c EXCEPT !.s = pk.s])
    ELSE IF pk.c = <<>> THEN Out(Err(EOF_), [c EXCEPT !.s = pk.s])
    ELSE IF MatchSpec_matches(p.spec, pk.c[1]) # p.negate
    THEN Out(Ok(pk.c[1]), [c EXCEPT !.s = next(pk.s).s])
    ELSE Out(Err(Fail("char not matched", index(pk.s))), [c EXCEPT !.s = pk.s])

\* OneOf::parse
OneOf_parse(p, path, c) == OneOf_peeked(p, c, peek(c.s))

\* String::from_iter(charvec.into_iter()): the characters are pushed onto an
\* empty String one after the other
RECURSIVE make_string(_)
make_string(charvec) ==
    IF charvec = <<>> THEN <<>>
    ELSE <<Head(charvec)>> \o make_string(Tail(charvec))

\* f64::from_str for the strings assemble_float gives it, digits and "."
\* followed by digits: Some of the number, written as m * 10^e with integers
\* m and e, the rounding to f64 left out; None for an error
RECURSIVE digits_value(_, _)
digits_value(str, acc) ==
    IF str = <<>> THEN acc
    ELSE digits_value(Tail(str), acc * 10 + to_digit(Head(str)))

f64_from_str(str) ==
    IF str # <<>> /\ \A i \in 1..Len(str) : is_digit(str[i])
    THEN <<[m |-> digits_value(str, 0), e |-> 0]>>
    ELSE IF Len(str) > 1 /\ str[1] = "." /\ \A i \in 2..Len(str) : is_digit(str[i])
    THEN <<[m |-> digits_value(Tail(str), 0), e |-> 1 - Len(str)]>>
    ELSE <<>>

\* assemble_float after little was set, bigf and littlef being the results
\* of the two calls of f64::from_str (littlef is Some(0.) without a dot)
assemble_float_parsed(s, exp, bigf, littlef) ==
    IF bigf = <<>> \/ littlef = <<>>
    THEN Err(execerr("invalid float literal"))
    ELSE Ok([m |-> (IF s # <<>> THEN -1 ELSE 1)
                   * (bigf[1].m * 10 ^ (-littlef[1].e) + littlef[1].m),
             e |-> littlef[1].e + (IF exp # <<>> THEN exp[1][2] ELSE 0)])

\* assemble_float, little being the Option after Some("0") was put in
assemble_float_filled(s, big, dot, little, exp) ==
    IF ~((dot # <<>> /\ little # <<>>) \/ (dot = <<>> /\ little = <<>>))
    THEN Panic
    ELSE assemble_float_parsed(s, exp, f64_from_str(big),
             IF dot # <<>> THEN f64_from_str(dot[1] \o little[1])
             ELSE <<[m |-> 0, e |-> 0]>>)

\* primitives::assemble_float
assemble_float(s, big, dot, little, exp) ==
    assemble_float_filled(s, big, dot,
        IF dot # <<>> /\ little = <<>> THEN <<<<"0">>>> ELSE little, exp)

\* HashMap::from_iter(es.into_iter()): the pairs of es with the key of no
\* later pair, a later pair replacing an earlier one of the same key; kept
\* in the order of es, a HashMap having none
HashMap_from_iter(es) ==
    LET keep == {i \in 1..Len(es) :
                    \A j \in (i + 1)..Len(es) : es[j][1] # es[i][1]}
        F[i \in 0..Len(es)] ==
            IF i = 0 THEN <<>>
            ELSE IF i \in keep THEN Append(F[i - 1], es[i]) ELSE F[i - 1]
    IN F[Len(es)]

\* the functions the model gives to Transform: each maps a parser's result to
\* a ParseResult. The last eight are the closures of primitives::float and
\* of the JSON example, named after what they make.
Apply(f, o) ==
    CASE f = "ok" -> Ok(o)
      [] f = "wrap" -> Ok(<<"wrapped", o>>)
      [] f = "fail" -> Err(execerr("f failed"))
      [] f = "make_string" -> Ok(make_string(o))
      [] f = "assemble_float" -> assemble_float(o[1], o[2], o[3], o[4], o[5])
      [] f = "Number" -> Ok(<<"Number", o>>)
      [] f = "String" -> Ok(<<"String", o[2]>>)
      [] f = "List" -> Ok(<<"List", o[2]>>)
      [] f = "Dict" -> Ok(<<"Dict", HashMap_from_iter(o[2])>>)
      [] f = "key" -> IF o[1] = "String" THEN Ok(o[2]) ELSE Panic
      [] f = "element" -> Ok(o[2])
      [] f = "pair" -> Ok(<<o[2], o[6]>>)

\* Transform::parse after f returned fr; the call of f is logged at
\* path \o <<0>>
Transform_applied(path, c, fr) ==
    Out(fr, [c EXCEPT !.log = Append(@,
            [path |-> Append(path, 0), ix0 |-> index(c.s), ix1 |-> index(c.s),
             r |-> fr])])

\* Transform::parse after self.p.parse(st) ended as o
Transform_parsed(p, path, o) ==
    IF o.r.k = "ok" THEN Transform_applied(path, o.c, Apply(p.f, o.r.v)) ELSE o

\* Transform::parse
Transform_parse(p, path, c) ==
    Transform_parsed(p, path, parse(p.p, Append(path, 1), c))

\* Alternative, after an option failed: st.reset(hold), as it would be with
\* release in its place
alt_after_failure_release(s, h) == [s |-> release(s, h), panic |-> FALSE]

\* Alternative, after an option failed: st.reset(hold)
alt_after_failure(s, h) == reset(s, h)

\* Alternative, after every option failed, as it would be if it passed on
\* the error of the last option
alt_exhausted_last(s, e) == Err(e)

\* Alternative, after every option failed; e is the last option's error
alt_exhausted(s, e) == Err(Fail("no alternative matched", index(s)))

\* the body of alt_impl's parse from option k on; e is the error of option
\* k - 1
RECURSIVE alt_loop(_, _, _, _, _)

\* after option k failed as o and st.reset(hold) did x
alt_reset(ps, k, path, o, x) ==
    IF x.panic THEN Out(Panic, o.c)
    ELSE alt_loop(ps, k + 1, path, [o.c EXCEPT !.s = x.s], o.r.v)

\* after option k ended as o
alt_tried(ps, k, path, h, o) ==
    IF o.r.k = "ok" THEN Out(o.r, [o.c EXCEPT !.s = release(o.c.s, h)])
    ELSE IF o.r.k = "err"
    THEN alt_reset(ps, k, path, o, alt_after_failure(o.c.s, h))
    ELSE o

\* option k, after st.hold() returned hh
alt_try(ps, k, path, c, hh) ==
    alt_tried(ps, k, path, hh.h, parse(ps[k], Append(path, k), [c EXCEPT !.s = hh.s]))

alt_loop(ps, k, path, c, e) ==
    IF k > Len(ps) THEN Out(alt_exhausted(c.s, e), c)
    ELSE alt_try(ps, k, path, c, hold(c.s))

\* alt_impl: Alternative::parse
alt_impl(p, path, c) == alt_loop(p.ps, 1, path, c, <<>>)

\* Sequence, when a sub-parser failed with e, as it would be with release in
\* the place of reset
seq_failed_release(c, h, e) == Out(Err(e), [c EXCEPT !.s = release(c.s, h)])

\* Sequence, when a sub-parser failed with e: st.reset(hold); return Err(e)
seq_failed(c, h, e) == rewound(c, reset(c.s, h), Err(e))

\* the body of seq_impl's parse from sub-parser k on
RECURSIVE seq_loop(_, _, _, _, _, _)

\* after sub-parser k ended as o
seq_parsed(ps, k, path, h, result, o) ==
    IF o.r.k = "ok" THEN seq_loop(ps, k + 1, path, o.c, h, Append(result, o.r.v))
    ELSE IF o.r.k = "err" THEN seq_failed(o.c, h, o.r.v)
    ELSE o

seq_loop(ps, k, path, c, h, result) ==
    IF k > Len(ps) THEN Out(Ok(result), [c EXCEPT !.s = release(c.s, h)])
    ELSE seq_parsed(ps, k, path, h, result, parse(ps[k], Append(path, k), c))

\* Sequence::parse after st.hold() returned hh
seq_held(p, path, c, hh) ==
    seq_loop(p.ps, 1, path, [c EXCEPT !.s = hh.s], hh.h, <<>>)

\* seq_impl: Sequence::parse
seq_impl(p, path, c) == seq_held(p, path, c, hold(c.s))

\* PartialSequence, when a sub-parser failed with e, as it would be if it
\* failed as Sequence does
pseq_failed_strict(c, h, result, e) == rewound(c, reset(c.s, h), Err(e))

\* PartialSequence, when a sub-parser failed with e: st.release(hold);
\* return Ok(result)
pseq_failed(c, h, result, e) == Out(Ok(result), [c EXCEPT !.s = release(c.s, h)])

\* the body of pseq_impl's parse from sub-parser k on; result is a tuple of
\* Option, all None at first
RECURSIVE pseq_loop(_, _, _, _, _, _)

\* after sub-parser k ended as o
pseq_parsed(ps, k, path, h, result, o) ==
    IF o.r.k = "ok"
    THEN pseq_loop(ps, k + 1, path, o.c, h, [result EXCEPT ![k] = <<o.r.v>>])
    ELSE IF o.r.k = "err" THEN pseq_failed(o.c, h, result, o.r.v)
    ELSE o

pseq_loop(ps, k, path, c, h, result) ==
    IF k > Len(ps) THEN Out(Ok(result), [c EXCEPT !.s = release(c.s, h)])
    ELSE pseq_parsed(ps, k, path, h, result, parse(ps[k], Append(path, k), c))

\* PartialSequence::parse after st.hold() returned hh
pseq_held(p, path, c, hh) ==
    pseq_loop(p.ps, 1, path, [c EXCEPT !.s = hh.s], hh.h,
              [k \in 1..Len(p.ps) |-> <<>>])

\* pseq_impl: PartialSequence::parse
pseq_impl(p, path, c) == pseq_held(p, path, c, hold(c.s))

\* RepeatSpec as the pair (min, max) that Repeat::parse makes of it
repeat_bounds(spec) ==
    CASE spec[1] = "Any" -> <<0, USIZE_MAX>>
      [] spec[1] = "Min" -> <<spec[2], USIZE_MAX>>
      [] spec[1] = "Max" -> <<0, spec[2]>>
      [] spec[1] = "Between" -> <<spec[2], spec[3]>>

\* max - 1 as it would be if the loop compared i with max
repeat_limit_late(max) == <<max>>

\* max - 1 in usize: <<>> when the subtraction panics, else <<max - 1>>
repeat_limit(max) ==
    IF max = 0
    THEN IF build = "debug" THEN <<>> ELSE <<USIZE_MAX>>
    ELSE <<max - 1>>

\* Repeat, when the inner parser failed with e in round i, as it would be if
\* it returned Ok(v) with its hold as it is
repeat_inner_failed_keep(c, h, i, min, v, e) ==
    IF i >= min THEN Out(Ok(v), c) ELSE rewound(c, reset(c.s, h), Err(e))

\* Repeat, when the inner parser failed with e in round i
repeat_inner_failed(c, h, i, min, v, e) ==
    IF i >= min
    THEN Out(Ok(v), [c EXCEPT !.s = release(c.s, h)])
    ELSE rewound(c, reset(c.s, h), Err(e))

\* the loop of Repeat::parse from round i on
RECURSIVE repeat_loop(_, _, _, _, _, _, _, _)

\* round i after v.push(r) as it would be with a guard that ends the loop
\* after a round that left the stream as it found it
repeat_pushed_guarded(inner, path, s0, c, h, i, min, max, v1, lim) ==
    IF lim = <<>> THEN Out(Panic, c)
    ELSE IF i >= lim[1] \/ c.s = s0
    THEN Out(Ok(v1), [c EXCEPT !.s = release(c.s, h)])
    ELSE repeat_loop(inner, path, c, h, i + 1, min, max, v1)

\* round i after v.push(r), lim being max - 1 and s0 the stream before the
\* round. The loop has no other exit after a successful round than
\* i >= max - 1. A round that succeeds and leaves the stream as it found it
\* is followed by rounds that do the same; where max is usize::MAX these are
\* usize::MAX rounds, each pushing onto v, which no run completes: the call
\* does not return.
repeat_pushed(inner, path, s0, c, h, i, min, max, v1, lim) ==
    IF lim = <<>> THEN Out(Panic, c)
    ELSE IF i >= lim[1] THEN Out(Ok(v1), [c EXCEPT !.s = release(c.s, h)])
    ELSE IF c.s = s0 /\ lim[1] >= USIZE_MAX - 1 THEN Out(Hang, c)
    ELSE repeat_loop(inner, path, c, h, i + 1, min, max, v1)

\* round i after self.inner.parse(st) ended as o
repeat_parsed(inner, path, s0, h, i, min, max, v, o) ==
    IF o.r.k = "ok"
    THEN repeat_pushed(inner, path, s0, o.c, h, i, min, max, Append(v, o.r.v),
                       repeat_limit(max))
    ELSE IF o.r.k = "err" THEN repeat_inner_failed(o.c, h, i, min, v, o.r.v)
    ELSE o

repeat_loop(inner, path, c, h, i, min, max, v) ==
    repeat_parsed(inner, path, c.s, h, i, min, max, v,
                  parse(inner, Append(path, 1), c))

\* Repeat::parse after st.hold() returned hh, b being (min, max)
repeat_held(p, path, c, b, hh) ==
    repeat_loop(p.inner, path, [c EXCEPT !.s = hh.s], hh.h, 0, b[1], b[2], <<>>)

\* Repeat::parse
Repeat_parse(p, path, c) ==
    repeat_held(p, path, c, repeat_bounds(p.repeat), hold(c.s))

\* Maybe::parse after self.inner.parse(st) ended as o
Maybe_parsed(o) ==
    IF o.r.k = "ok" THEN Out(Ok(<<o.r.v>>), o.c)
    ELSE IF o.r.k = "err" THEN Out(Ok(<<>>), o.c)
    ELSE o

\* Maybe::parse as it would be if it passed the inner parser's result on,
\* as Ignore passes an error on
Maybe_parse_strict(p, path, c) == parse(p.inner, Append(path, 1), c)

\* Maybe::parse
Maybe_parse(p, path, c) == Maybe_parsed(parse(p.inner, Append(path, 1), c))

\* Ignore::parse after self.inner.parse(st) ended as o
Ignore_parsed(o) == IF o.r.k = "ok" THEN Out(Ok(<<>>), o.c) ELSE o

\* Ignore::parse
Ignore_parse(p, path, c) == Ignore_parsed(parse(p.inner, Append(path, 1), c))

\* Then::parse after self.a.parse(st) ended as oa
Then_first(p, path, oa) ==
    IF oa.r.k = "ok" THEN parse(p.b, Append(path, 2), oa.c) ELSE oa

\* Then::parse
Then_parse(p, path, c) == Then_first(p, path, parse(p.a, Append(path, 1), c))

\* The cell of a Lazy: p is self.1, the parser once it is built; runs counts
\* the calls of the constructor self.0, calls the calls of parse() on the
\* instance.  The cells of the Lazy parts of one parser are c.lazy, indexed
\* by the id given to each part.
Lazy_cell == [p |-> <<>>, runs |-> 0, calls |-> 0]

\* Lazy::parse as it would be if it built its parser on every call
Lazy_init_always(p, c) ==
    [c EXCEPT !.lazy[p.id].p = <<p.f>>, !.lazy[p.id].runs = @ + 1]

\* if self.1.is_none() { self.1 = Some((self.0)()); }
Lazy_init(p, c) ==
    IF c.lazy[p.id].p = <<>>
    THEN [c EXCEPT !.lazy[p.id].p = <<p.f>>, !.lazy[p.id].runs = @ + 1]
    ELSE c

\* self.1.as_mut().unwrap().parse(st)
Lazy_built(p, path, c) ==
    parse(c.lazy[p.id].p[1], Append(path, 1), c)

\* Lazy::parse
Lazy_parse(p, path, c) ==
    Lazy_built(p, path, Lazy_init(p, [c EXCEPT !.lazy[p.id].calls = @ + 1]))

(***************************************************************************)
(* Constructors, named as in the crate.                                    *)
(***************************************************************************)
StringParser_new(str) == [t |-> "StringParser", s |-> str]
\* Int::<IType>::new() for the type of bits bits, signed or not
Int_new(signed, bits) ==
    [t |-> "Int", signed |-> signed,
     min |-> IF signed THEN -(2 ^ (bits - 1)) ELSE 0,
     max |-> IF signed THEN 2 ^ (bits - 1) - 1 ELSE 2 ^ bits - 1]
Int8_new == Int_new(TRUE, 8)
Int16_new == Int_new(TRUE, 16)
Uint8_new == Int_new(FALSE, 8)
Uint16_new == Int_new(FALSE, 16)
Nothing == [t |-> "Nothing"]
Transform_new(p, f) == [t |-> "Transform", p |-> p, f |-> f]
Alternative_new(tuple) == [t |-> "Alternative", ps |-> tuple]
Sequence_new(tuple) == [t |-> "Sequence", ps |-> tuple]
PartialSequence_new(tuple) == [t |-> "PartialSequence", ps |-> tuple]
Repeat_new(p, r) == [t |-> "Repeat", inner |-> p, repeat |-> r]
Maybe_new(p) == [t |-> "Maybe", inner |-> p]
Ignore_new(p) == [t |-> "Ignore", inner |-> p]
Then_new(first, second) == [t |-> "Then", a |-> first, b |-> second]
\* Lazy::new(f), f returning the parser made; id names the instance
Lazy_new(id, f) == [t |-> "Lazy", id |-> id, f |-> f]

\* Parser::apply
apply(p, f) == Transform_new(p, f)

\* OneOf::new and OneOf::new_none_of
OneOf_new(chars) == [t |-> "OneOf", spec |-> MatchSpec_new(chars), negate |-> FALSE]

OneOf_new_none_of(chars) ==
    [t |-> "OneOf", spec |-> MatchSpec_new(chars), negate |-> TRUE]

\* primitives::string_of and primitives::string_none_of
string_of(chars, rp) == apply(Repeat_new(OneOf_new(chars), rp), "make_string")

string_none_of(chars, rp) ==
    apply(Repeat_new(OneOf_new_none_of(chars), rp), "make_string")

\* primitives::whitespace
whitespace == Ignore_new(Repeat_new(OneOf_new(<<" ", "\n", "\r", "\t">>), <<"Any">>))

(***************************************************************************)
(* primitives::float and the JSON example, src/examples/json/src/lib.rs.   *)
(* A Value is <<"Number", n>>, <<"String", s>>, <<"List", vs>> or          *)
(* <<"Dict", pairs>>. A Lazy is given the id of its cell when it is made;  *)
(* the cells of the Lazy values that one call of ValueParser::parse may    *)
(* make are added to c.lazy when the call begins.                          *)
(***************************************************************************)
\* Int32::new()
Int32_new == [t |-> "Int", signed |-> TRUE, min |-> -2147483647 - 1, max |-> 2147483647]

\* primitives::float as it would be if digits took one digit and left the
\* rest of the run
float_one_digit ==
    LET digits_set == <<"0", "1", "2", "3", "4", "5", "6", "7", "8", "9">>
        minus == Maybe_new(Ignore_new(StringParser_new(<<"-">>)))
        digits == string_of(digits_set, <<"Between", 1, 1>>)
        point == Maybe_new(StringParser_new(<<".">>))
        smalldigits == Maybe_new(string_of(digits_set, <<"Min", 1>>))
        exp == Maybe_new(Sequence_new(<<Ignore_new(StringParser_new(<<"e">>)),
                                        Int32_new>>))
    IN apply(Sequence_new(<<minus, digits, point, smalldigits, exp>>),
             "assemble_float")

\* primitives::float
float ==
    LET digits_set == <<"0", "1", "2", "3", "4", "5", "6", "7", "8", "9">>
        minus == Maybe_new(Ignore_new(StringParser_new(<<"-">>)))
        digits == string_of(digits_set, <<"Min", 1>>)
        point == Maybe_new(StringParser_new(<<".">>))
        smalldigits == Maybe_new(string_of(digits_set, <<"Min", 1>>))
        exp == Maybe_new(Sequence_new(<<Ignore_new(StringParser_new(<<"e">>)),
                                        Int32_new>>))
    IN apply(Sequence_new(<<minus, digits, point, smalldigits, exp>>),
             "assemble_float")

\* struct ValueParser
ValueParser == [t |-> "ValueParser"]

\* fn number
number == apply(float, "Number")

\* fn string; id is the cell of middle
string(id) ==
    LET quote == StringParser_new(<<"\"">>)
        middle == Lazy_new(id, string_none_of(<<"\"">>, <<"Any">>))
    IN apply(Sequence_new(<<quote, middle, quote>>), "String")

\* the closure inner of fn list
list_inner ==
    LET comma == StringParser_new(<<",">>)
        separated_element ==
            Sequence_new(<<whitespace, ValueParser, whitespace, Maybe_new(comma)>>)
    IN Repeat_new(apply(separated_element, "element"), <<"Any">>)

\* fn list; id is the cell of Lazy::new(inner)
list(id) ==
    apply(Sequence_new(<<StringParser_new(<<"[">>), Lazy_new(id, list_inner),
                         StringParser_new(<<"]">>)>>), "List")

\* the closure inner of fn dict; kid is the cell of the Lazy in key
dict_inner(kid) ==
    LET comma == StringParser_new(<<",">>)
        sep == StringParser_new(<<":">>)
        key == apply(string(kid), "key")
        separated_element ==
            Sequence_new(<<whitespace, key, whitespace, sep, whitespace,
                           ValueParser, whitespace, Maybe_new(comma)>>)
    IN Repeat_new(apply(separated_element, "pair"), <<"Any">>)

\* fn dict; id is the cell of Lazy::new(inner)
dict(id, kid) ==
    apply(Sequence_new(<<StringParser_new(<<"{">>), Lazy_new(id, dict_inner(kid)),
                         StringParser_new(<<"}">>)>>), "Dict")

\* the Alternative that ValueParser::parse makes, n cells being in use
ValueParser_made(n) ==
    Alternative_new(<<string(n + 1), number,
                      Lazy_new(n + 2, list(n + 3)),
                      Lazy_new(n + 4, dict(n + 5, n + 6))>>)

\* ValueParser::parse
ValueParser_parse(p, path, c) ==
    parse(ValueParser_made(Len(c.lazy)), Append(path, 1),
          [c EXCEPT !.lazy = @ \o [k \in 1..6 |-> Lazy_cell]])

\* the call of parse() that began at index ix0 and ended as o, added to the
\* log
logged(path, ix0, o) ==
    Out(o.r, [o.c EXCEPT !.log = Append(@,
            [path |-> path, ix0 |-> ix0, ix1 |-> index(o.c.s), r |-> o.r])])

\* Parser::parse, dispatched on the parser's type
dispatch(p, path, c) ==
    CASE p.t = "StringParser" -> StringParser_parse(p, path, c)
      [] p.t = "Int" -> Int_parse(p, path, c)
      [] p.t = "Nothing" -> Nothing_parse(p, path, c)
      [] p.t = "OneOf" -> OneOf_parse(p, path, c)
      [] p.t = "Transform" -> Transform_parse(p, path, c)
      [] p.t = "Alternative" -> alt_impl(p, path, c)
      [] p.t = "Sequence" -> seq_impl(p, path, c)
      [] p.t = "PartialSequence" -> pseq_impl(p, path, c)
      [] p.t = "Repeat" -> Repeat_parse(p, path, c)
      [] p.t = "Maybe" -> Maybe_parse(p, path, c)
      [] p.t = "Ignore" -> Ignore_parse(p, path, c)
      [] p.t = "Then" -> Then_parse(p, path, c)
      [] p.t = "Lazy" -> Lazy_parse(p, path, c)
      [] p.t = "ValueParser" -> ValueParser_parse(p, path, c)

\* p.parse(st)
parse(p, path, c) == logged(path, index(c.s), dispatch(p, path, c))

(***************************************************************************)
(* The same calls, followed one sub-parser call at a time.  A parser that  *)
(* calls a sub-parser waits for it: begun(p, path, c) is p.parse(st) up to *)
(* its first call of a sub-parser, and resumed(fr, o) is what the waiting  *)
(* parser does once that call has ended as o, up to its next call.  Both   *)
(* end in Done(o), the parser returning o, or in Call(fr, q, path, c), the *)
(* parser calling q.parse(st) and waiting as fr: fr.t is the parser's      *)
(* type, the other fields are the locals of its parse().                   *)
(***************************************************************************)
Done(o) == [k |-> "done", o |-> o]
Call(fr, p, path, c) == [k |-> "call", fr |-> fr, p |-> p, path |-> path, c |-> c]

\* alt_impl's parse from option k on; e is the error of option k - 1
alt_next(ps, k, path, c, e) ==
    IF k > Len(ps) THEN Done(Out(alt_exhausted(c.s, e), c))
    ELSE LET hh == hold(c.s)
         IN Call([t |-> "Alternative", ps |-> ps, k |-> k, path |-> path,
                  h |-> hh.h],
                 ps[k], Append(path, k), [c EXCEPT !.s = hh.s])

\* Alternative, after option fr.k ended as o
alt_resumed(fr, o) ==
    IF o.r.k = "ok" THEN Done(Out(o.r, [o.c EXCEPT !.s = release(o.c.s, fr.h)]))
    ELSE IF o.r.k = "err"
    THEN LET x == alt_after_failure(o.c.s, fr.h)
         IN IF x.panic THEN Done(Out(Panic, o.c))
            ELSE alt_next(fr.ps, fr.k + 1, fr.path, [o.c EXCEPT !.s = x.s],
                          o.r.v)
    ELSE Done(o)

\* seq_impl's parse from sub-parser k on
seq_next(ps, k, path, c, h, result) ==
    IF k > Len(ps) THEN Done(Out(Ok(result), [c EXCEPT !.s = release(c.s, h)]))
    ELSE Call([t |-> "Sequence", ps |-> ps, k |-> k, path |-> path, h |-> h,
               result |-> result],
              ps[k], Append(path, k), c)

\* Sequence, after sub-parser fr.k ended as o
seq_resumed(fr, o) ==
    IF o.r.k = "ok"
    THEN seq_next(fr.ps, fr.k + 1, fr.path, o.c, fr.h, Append(fr.result, o.r.v))
    ELSE IF o.r.k = "err" THEN Done(seq_failed(o.c, fr.h, o.r.v))
    ELSE Done(o)

\* Repeat's round i: self.inner.parse(st)
repeat_next(inner, path, c, h, i, min, max, v) ==
    Call([t |-> "Repeat", inner |-> inner, path |-> path, s0 |-> c.s, h |-> h,
          i |-> i, min |-> min, max |-> max, v |-> v],
         inner, Append(path, 1), c)

\* Repeat, after the inner parser ended round fr.i as o; lim is max - 1
repeat_resumed(fr, o) ==
    IF o.r.k = "ok"
    THEN LET lim == repeat_limit(fr.max)
             v1 == Append(fr.v, o.r.v)
         IN IF lim = <<>> THEN Done(Out(Panic, o.c))
            ELSE IF fr.i >= lim[1]
            THEN Done(Out(Ok(v1), [o.c EXCEPT !.s = release(o.c.s, fr.h)]))
            ELSE IF o.c.s = fr.s0 /\ lim[1] >= USIZE_MAX - 1
            THEN Done(Out(Hang, o.c))
            ELSE repeat_next(fr.inner, fr.path, o.c, fr.h, fr.i + 1, fr.min,
                             fr.max, v1)
    ELSE IF o.r.k = "err"
    THEN Done(repeat_inner_failed(o.c, fr.h, fr.i, fr.min, fr.v, o.r.v))
    ELSE Done(o)

\* p.parse(st) up to p's first call of a sub-parser.  The parsers not named
\* here are run whole.
begun(p, path, c) ==
    CASE p.t = "Transform" ->
            Call([t |-> "Transform", p |-> p, path |-> path],
                 p.p, Append(path, 1), c)
      [] p.t = "Alternative" -> alt_next(p.ps, 1, path, c, <<>>)
      [] p.t = "Sequence" ->
            LET hh == hold(c.s)
            IN seq_next(p.ps, 1, path, [c EXCEPT !.s = hh.s], hh.h, <<>>)
      [] p.t = "Repeat" ->
            LET b == repeat_bounds(p.repeat)
                hh == hold(c.s)
            IN repeat_next(p.inner, path, [c EXCEPT !.s = hh.s], hh.h, 0,
                           b[1], b[2], <<>>)
      [] p.t = "Maybe" -> Call([t |-> "Maybe"], p.inner, Append(path, 1), c)
      [] p.t = "Ignore" -> Call([t |-> "Ignore"], p.inner, Append(path, 1), c)
      [] p.t = "Lazy" ->
            LET c1 == Lazy_init(p, [c EXCEPT !.lazy[p.id].calls = @ + 1])
            IN Call([t |-> "Lazy"], c1.lazy[p.id].p[1], Append(path, 1), c1)
      [] p.t = "ValueParser" ->
            Call([t |-> "ValueParser"], ValueParser_made(Len(c.lazy)),
                 Append(path, 1),
                 [c EXCEPT !.lazy = @ \o [k \in 1..6 |-> Lazy_cell]])
      [] OTHER -> Done(dispatch(p, path, c))

\* the parser waiting as fr, once the call it waits for has ended as o
resumed(fr, o) ==
    CASE fr.t = "Transform" -> Done(Transform_parsed(fr.p, fr.path, o))
      [] fr.t = "Alternative" -> alt_resumed(fr, o)
      [] fr.t = "Sequence" -> seq_resumed(fr, o)
      [] fr.t = "Repeat" -> repeat_resumed(fr, o)
      [] fr.t = "Maybe" -> Done(Maybe_parsed(o))
      [] fr.t = "Ignore" -> Done(Ignore_parsed(o))
      [] fr.t = "Lazy" -> Done(o)
      [] fr.t = "ValueParser" -> Done(o)

\* A call of parse() in progress: stack holds the parsers that wait, the
\* outermost first, each with the path and the index() its own call began
\* with; now is the call about to begin (Calling) or the outcome of the
\* call that has just returned (Returning).
Calling(p, path, c) == [k |-> "call", p |-> p, path |-> path, c |-> c]
Returning(o) == [k |-> "ret", o |-> o]

\* the call of path and ix0 went on as e: it returned, which is logged, or
\* it waits for a sub-parser
went_on(stack, path, ix0, e) ==
    IF e.k = "done"
    THEN [stack |-> stack, now |-> Returning(logged(path, ix0, e.o))]
    ELSE [stack |-> Append(stack, [fr |-> e.fr, path |-> path, ix0 |-> ix0]),
          now |-> Calling(e.p, e.path, e.c)]

\* one step of the calls m: the call about to begin begins, or the outcome
\* just returned reaches the parser that waits innermost
advanced(m) ==
    IF m.now.k = "call"
    THEN went_on(m.stack, m.now.path, index(m.now.c.s),
                 begun(m.now.p, m.now.path, m.now.c))
    ELSE LET top == m.stack[Len(m.stack)]
         IN went_on(SubSeq(m.stack, 1, Len(m.stack) - 1), top.path, top.ix0,
                    resumed(top.fr, m.now.o))

\* the outermost call has returned
finished_calls(m) == m.now.k = "ret" /\ m.stack = <<>>

\* p.parse(st) followed step by step to its end
RECURSIVE parse_stepwise_from(_)
parse_stepwise_from(m) ==
    IF finished_calls(m) THEN m.now.o ELSE parse_stepwise_from(advanced(m))

parse_stepwise(p, path, c) ==
    parse_stepwise_from([stack |-> <<>>, now |-> Calling(p, path, c)])

(***************************************************************************)
(* The stream used directly: a client calls the public operations of       *)
(* ParseState in any order and resolves its holds in any order.            *)
(* Each unresolved hold is kept with what was observable when it was       *)
(* taken: p, the value of index(); snap, the characters the stream had     *)
(* still to deliver; kept, whether index() has stayed at or after p.      *)
(***************************************************************************)

\* ParseState::new(s) for a string s of the set inputs, in either build
Started(inputs) ==
    /\ input \in inputs
    /\ build \in Builds
    /\ st = ParseState_new(input)
    /\ stopped = "no"
    /\ holds = <<>>
    /\ last = [op |-> "new"]
    /\ lazy = [pid |-> 0, cells |-> <<>>]
    /\ calls = <<>>

Init == Started(Inputs)

\* The stream never looks at the value of a character (ParseState is generic
\* over Iterator<Item = char> and only stores and hands out the items), so
\* the stream operations are explored on strings whose characters are all
\* different: every other string of the same length is a renaming of one.
StreamText == <<"a", "b", "c", "d", "e", "f">>

StreamInputs == {SubSeq(StreamText, 1, n) : n \in 0..Min2(MaxLen, Len(StreamText))}

InitStream == Started(StreamInputs)

\* the holds with kept brought up to date for the stream s: kept says that
\* the cursor has stayed at or after the hold's position since it was taken
Lowered(hs, s) ==
    [i \in 1..Len(hs) |->
        [hs[i] EXCEPT !.kept = hs[i].kept /\ index(s) >= hs[i].p]]

\* hs without its i-th element
Without(hs, i) == SubSeq(hs, 1, i - 1) \o SubSeq(hs, i + 1, Len(hs))

\* s.next()
CallNext ==
    /\ stopped = "no"
    /\ LET n == next(st)
       IN /\ st' = n.s
          /\ last' = [op |-> "next", c |-> n.c, ix0 |-> index(st)]
          /\ holds' = Lowered(holds, n.s)
    /\ UNCHANGED <<input, build, calls, lazy, stopped>>

\* s.peek()
CallPeek ==
    /\ stopped = "no"
    /\ LET k == peek(st)
       IN /\ st' = k.s
          /\ stopped' = IF k.panic THEN "panic" ELSE "no"
          /\ last' = [op |-> "peek", c |-> k.c, ix0 |-> index(st),
                      fetched |-> st.current = Len(st.buf) /\ st.next # <<>>]
          /\ holds' = Lowered(holds, k.s)
    /\ UNCHANGED <<input, build, calls, lazy>>

\* s.undo_next()
CallUndoNext ==
    /\ stopped = "no"
    /\ LET u == undo_next(st)
       IN /\ st' = u.s
          /\ stopped' = IF u.panic THEN "panic" ELSE "no"
          /\ last' = [op |-> "undo_next", ix0 |-> index(st)]
          /\ holds' = Lowered(holds, u.s)
    /\ UNCHANGED <<input, build, calls, lazy>>

\* let h = s.hold()
CallHold ==
    /\ stopped = "no"
    /\ Len(holds) < MaxHolds
    /\ LET r == hold(st)
       IN /\ st' = r.s
          /\ holds' = Append(holds, [h |-> r.h, p |-> index(st),
                                     snap |-> collect(st), kept |-> TRUE])
          /\ last' = [op |-> "hold", ix0 |-> index(st)]
    /\ UNCHANGED <<input, build, calls, lazy, stopped>>

\* s.release(h) for any unresolved h; release defuses h and drops it when
\* it returns
CallRelease ==
    /\ stopped = "no"
    /\ \E i \in 1..Len(holds) :
         /\ st' = release(st, holds[i].h)
         /\ holds' = Without(holds, i)
         /\ stopped' = IF Hold_drop(defuse(holds[i].h), FALSE) THEN "panic" ELSE "no"
         /\ last' = [op |-> "release", ix0 |-> index(st), p |-> holds[i].p,
                     disposal |-> Hold_drop(defuse(holds[i].h), FALSE)]
    /\ UNCHANGED <<input, build, calls, lazy>>

\* s.reset(h) for any unresolved h; reset defuses h and drops it when it
\* returns, and drops it as it is when the subtraction panics
CallReset ==
    /\ stopped = "no"
    /\ \E i \in 1..Len(holds) :
         LET r == reset(st, holds[i].h)
             d == IF r.panic THEN Hold_drop(holds[i].h, TRUE)
                  ELSE Hold_drop(defuse(holds[i].h), FALSE)
         IN /\ st' = IF r.panic THEN st ELSE r.s
            /\ stopped' = IF r.panic \/ d THEN "panic" ELSE "no"
            /\ holds' = Lowered(Without(holds, i), IF r.panic THEN st ELSE r.s)
            /\ last' = [op |-> "reset", ix0 |-> index(st), p |-> holds[i].p,
                        snap |-> holds[i].snap,
                        kept |-> holds[i].kept,
                        nested |-> i < Len(holds),
                        disposal |-> d]
    /\ UNCHANGED <<input, build, calls, lazy>>

\* an unresolved h goes out of scope, or the client calls drop(h)
CallDrop ==
    /\ stopped = "no"
    /\ \E i \in 1..Len(holds) :
         /\ stopped' = IF Hold_drop(holds[i].h, FALSE) THEN "panic" ELSE "no"
         /\ holds' = Without(holds, i)
         /\ last' = [op |-> "drop", ix0 |-> index(st), p |-> holds[i].p,
                     disposal |-> Hold_drop(holds[i].h, FALSE)]
    /\ UNCHANGED <<input, build, calls, lazy, st>>

NextStream ==
    \/ CallNext
    \/ CallPeek
    \/ CallUndoNext
    \/ CallHold
    \/ CallRelease
    \/ CallReset
    \/ CallDrop

SpecStream == InitStream /\ [][NextStream]_vars

\* C1: after reset(h), for a hold h taken at position p and a cursor that
\* stayed at or after p in between, index() is p and peek() and next() deliver
\* the characters the stream had still to deliver when h was taken.
C1_ResetRestores ==
    (last.op = "reset" /\ last.kept) =>
        /\ stopped = "no"
        /\ index(st) = last.p
        /\ collect(st) = last.snap
        /\ peek(st).c = SubSeq(last.snap, 1, Min2(1, Len(last.snap)))
        /\ index(peek(st).s) = last.p

\* a hold taken after some input was read is reset after more was read, while
\* a younger hold is still unresolved
C1_Witness ==
    /\ last.op = "reset" /\ last.kept /\ stopped = "no"
    /\ last.p > 0 /\ last.ix0 > last.p
    /\ last.nested
    /\ last.snap # <<>>

\* C17: release(h) and reset(h) take h from the client and dispose of it
\* without a panic; a Hold that is dropped without having been released or
\* reset panics where it is dropped.
C17_HoldResolvedOnce ==
    /\ last.op \in {"release", "reset"} => ~last.disposal
    /\ last.op = "release" => stopped = "no"
    /\ last.op = "drop" => (last.disposal /\ stopped = "panic")

\* the younger of two holds was dropped unresolved after input had been read
C17_Witness ==
    /\ last.op = "drop" /\ stopped = "panic"
    /\ Len(holds) = 1 /\ holds[1].p < last.p
    /\ index(st) > last.p

\* C18: peek() does not panic and leaves index() as it was, also when it has
\* to fetch from the source, and the next call of next() returns what peek()
\* returned: so after every call of peek(), and for a call of peek() in
\* every state reached.
C18_PeekKeepsPosition ==
    /\ last.op = "peek" =>
          /\ stopped = "no"
          /\ index(st) = last.ix0
          /\ next(st).c = last.c
    /\ stopped = "no" =>
          /\ ~peek(st).panic
          /\ index(peek(st).s) = index(st)
          /\ next(peek(st).s).c = peek(st).c

\* peek() fetched from the source and returned a character while a hold was
\* unresolved
C18_Witness ==
    /\ last.op = "peek" /\ last.fetched /\ last.c # <<>>
    /\ holds # <<>>
    /\ stopped = "no"

\* C19: in every state reached, finished() is true exactly when the next call
\* of next() would return None.
C19_FinishedAtEnd ==
    stopped = "no" => (finished(st) <=> next(st).c = <<>>)

\* C20: where every character has been consumed, next() and peek() return
\* None, do not panic and leave index() as it is, however often they are
\* called; after a reset(h) to a position before the end, next() and peek()
\* return the character at that position.
C20_EndOfInputIsValue ==
    /\ (stopped = "no" /\ index(st) >= Len(input)) =>
          /\ next(st).c = <<>>
          /\ index(next(st).s) = index(st)
          /\ ~peek(st).panic
          /\ peek(st).c = <<>>
          /\ index(peek(st).s) = index(st)
    /\ (last.op \in {"next", "peek"} /\ last.ix0 >= Len(input)) =>
          /\ stopped = "no"
          /\ last.c = <<>>
          /\ index(st) = last.ix0
    /\ (last.op = "reset" /\ stopped = "no" /\ index(st) < Len(input)) =>
          /\ next(st).c = <<input[index(st) + 1]>>
          /\ peek(st).c = <<input[index(st) + 1]>>

\* next() had returned None at the end of the input, and a reset took the
\* stream from the end to a position where characters are left
C20_Witness ==
    /\ last.op = "reset" /\ stopped = "no"
    /\ st.next = <<>>
    /\ last.ix0 = Len(input) /\ index(st) < Len(input)
    /\ index(st) > 0
    /\ next(st).c # <<>>

\* C21: index() is the absolute position in the input: the position in the
\* buffer (current) and the position in the stream (global) are equal in
\* every state reached, the character next() delivers is the one at position
\* index() of the input, and index() moves by one with every character next()
\* returns, back by one with undo_next(), to the position of h with reset(h),
\* and not at all with peek(), hold(), release(h) and a drop.
C21_IndexIsPosition ==
    /\ stopped = "no" =>
          /\ st.current = st.global
          /\ index(st) <= Len(input)
          /\ next(st).c = IF index(st) < Len(input)
                          THEN <<input[index(st) + 1]>> ELSE <<>>
    /\ last.op = "next" =>
          index(st) = IF last.c # <<>> THEN last.ix0 + 1 ELSE last.ix0
    /\ (last.op = "undo_next" /\ stopped = "no") => index(st) = last.ix0 - 1
    /\ (last.op = "reset" /\ stopped = "no") => index(st) = last.p
    /\ last.op \in {"peek", "hold", "release", "drop"} => index(st) = last.ix0

\* undo_next() has stepped back to before the position of an unresolved
\* hold, after next() had returned None at the end of the input
C21_Witness ==
    /\ last.op = "undo_next" /\ stopped = "no"
    /\ st.next = <<>>
    /\ holds # <<>> /\ holds[1].p > index(st)
    /\ index(st) > 0

\* the smallest position of an unresolved hold of the client, and the number
\* of its unresolved holds at position q
OldestHeld == CHOOSE q \in {holds[i].p : i \in 1..Len(holds)} :
                 \A i \in 1..Len(holds) : q <= holds[i].p

HeldAt(q) == Cardinality({i \in 1..Len(holds) : holds[i].p = q})

\* C22: while a hold is unresolved, oldest_hold_count is Some((q, n)) with q
\* the smallest position of an unresolved hold and n the number of unresolved
\* holds at q; it is None exactly when no hold is unresolved.
C22_FloorIsOldestHold ==
    stopped = "no" =>
        st.oldest_hold_count =
            IF holds = <<>> THEN <<>> ELSE <<OldestHeld, HeldAt(OldestHeld)>>

\* the position in the input of the k-th character of the buffer: current
\* is the place in the buffer of the character at position global
BufferedAt(k) == st.global - st.current + k - 1

\* C23: in every state reached the buffer holds no character at a position
\* before the oldest unresolved hold, or before the cursor when no hold is
\* unresolved.
C23_BufferTrimmed ==
    stopped = "no" =>
        \A k \in 1..Len(st.buf) :
            BufferedAt(k) >= IF holds = <<>> THEN st.global ELSE OldestHeld

\* C29: reset(h) is a rewind for every unresolved h, whatever was called
\* since h was taken: it does not panic, index() is afterwards the position
\* h was taken at, and that is not after the position reset was called at.
C29_ResetOnlyRewinds ==
    last.op = "reset" =>
        /\ stopped = "no"
        /\ index(st) = last.p
        /\ index(st) <= last.ix0

(***************************************************************************)
(* The parsers used: a client creates a stream, reads from it with next()  *)
(* and peek(), and calls parse() on one of the parsers below; after the    *)
(* call it reads on, and may then call parse() again.                      *)
(***************************************************************************)
\* largest number in a RepeatSpec
MaxRep == 2

pA == StringParser_new(<<"a">>)
pB == StringParser_new(<<"b">>)
pC == StringParser_new(<<"c">>)
pAB == StringParser_new(<<"a", "b">>)
\* two parsers that fail after consuming "a": on "a" not followed by "b",
\* and on every "a"
pThenAB == Then_new(pA, pB)
pFailA == Transform_new(pA, "fail")

\* every RepeatSpec with numbers up to MaxRep
RepeatSpecs ==
    <<<<"Any">>>>
    \o [n \in 1..(MaxRep + 1) |-> <<"Min", n - 1>>]
    \o [n \in 1..(MaxRep + 1) |-> <<"Max", n - 1>>]
    \o [n \in 1..((MaxRep + 1) * (MaxRep + 1)) |->
            <<"Between", (n - 1) \div (MaxRep + 1), (n - 1) % (MaxRep + 1)>>]

\* the parsers a Repeat or a Maybe is put around
Inners == <<pA, pAB, pThenAB, pFailA, Sequence_new(<<pA, pB>>)>>

Repeats ==
    [n \in 1..(Len(Inners) * Len(RepeatSpecs)) |->
        Repeat_new(Inners[((n - 1) \div Len(RepeatSpecs)) + 1],
                   RepeatSpecs[((n - 1) % Len(RepeatSpecs)) + 1])]

Maybes ==
    [n \in 1..Len(Inners) |-> Maybe_new(Inners[n])]
    \o <<Maybe_new(Repeat_new(pA, <<"Max", 0>>)),
         Maybe_new(Repeat_new(pA, <<"Min", 2>>))>>

Sequences ==
    << Sequence_new(<<pA, pB>>),
       Sequence_new(<<pA, pB, pC>>),
       Sequence_new(<<pThenAB, pC>>),
       Sequence_new(<<pA, pThenAB, pC>>),
       Sequence_new(<<pA, Transform_new(pB, "fail"), pC>>),
       Sequence_new(<<Maybe_new(pA), pB>>),
       Sequence_new(<<Repeat_new(pA, <<"Any">>), pB>>),
       Sequence_new(<<pA, Sequence_new(<<pB, pC>>)>>) >>

Alternatives ==
    << Alternative_new(<<pA, pAB>>),
       Alternative_new(<<pAB, pA>>),
       Alternative_new(<<pThenAB, pA>>),
       Alternative_new(<<pThenAB, pFailA>>),
       Alternative_new(<<pFailA, pThenAB, pB>>),
       Alternative_new(<<pFailA, pA, pAB>>),
       Alternative_new(<<pB, Sequence_new(<<pA, pB>>), pA>>),
       Alternative_new(<<Sequence_new(<<pA, pC>>), Repeat_new(pA, <<"Min", 1>>)>>),
       Alternative_new(<<Alternative_new(<<pB, pC>>), pA>>) >>

Thens ==
    << pThenAB,
       Then_new(pA, Then_new(pB, pC)),
       Then_new(Then_new(pA, pB), pC),
       Then_new(Repeat_new(pA, <<"Any">>), pB),
       Then_new(pA, pFailA),
       Then_new(Maybe_new(pA), pB) >>

Transforms ==
    << Transform_new(pA, "ok"),
       pFailA,
       apply(pAB, "wrap"),
       apply(pAB, "fail"),
       Transform_new(Sequence_new(<<pA, pB>>), "fail"),
       Transform_new(Repeat_new(pA, <<"Any">>), "fail"),
       Transform_new(pThenAB, "fail"),
       Transform_new(pFailA, "wrap") >>

PartialSequences ==
    << PartialSequence_new(<<pA, pB>>),
       PartialSequence_new(<<pA, pB, pC>>),
       PartialSequence_new(<<pA, pThenAB, pC>>),
       PartialSequence_new(<<pA, pFailA, pA>>),
       PartialSequence_new(<<Maybe_new(pB), pA, pAB>>),
       PartialSequence_new(<<pA, PartialSequence_new(<<pB, pC>>), pC>>) >>

\* a Repeat around a parser that succeeds without consuming: Nothing always,
\* a Maybe where its parser fails
ZeroWidthRepeats ==
    << Repeat_new(Nothing, <<"Any">>),
       Repeat_new(Nothing, <<"Min", 1>>),
       Repeat_new(Nothing, <<"Max", 2>>),
       Repeat_new(Maybe_new(pA), <<"Any">>),
       Repeat_new(Maybe_new(pB), <<"Min", 2>>),
       Repeat_new(Maybe_new(pA), <<"Between", 1, 2>>) >>

Parsers ==
    <<pA, pAB, Nothing, Ignore_new(pAB)>>
    \o Sequences \o Alternatives \o Thens \o Transforms \o Maybes \o Repeats
    \o PartialSequences \o ZeroWidthRepeats

\* the step of Parse for parser i, the call having ended as o
Parsed(i, o) ==
    /\ st' = o.c.s
    /\ stopped' = IF Returned(o.r) THEN "no" ELSE o.r.k
    /\ last' = [op |-> "parse", pid |-> i, ix0 |-> index(st),
                s0 |-> st, r |-> o.r, log |-> o.c.log]

\* p.parse(&mut st) for one of the parsers
Parse ==
    /\ stopped = "no"
    /\ last.op # "parse"
    /\ \E i \in 1..Len(Parsers) :
         Parsed(i, parse(Parsers[i], <<>>, [s |-> st, log |-> <<>>]))
    /\ UNCHANGED <<input, build, calls, lazy, holds>>

Next ==
    \/ CallNext
    \/ CallPeek
    \/ Parse

Spec == Init /\ [][Next]_vars

(***************************************************************************)
(* What a call of parse() did, read from its log.                          *)
(***************************************************************************)
\* the parser the client called last
Root == Parsers[last.pid]

\* the calls of the sub-parser at place k of the root that have ended
Calls(k) == SelectSeq(last.log, LAMBDA e : e.path = <<k>>)

\* the sub-parser at place k was called
Ran(k) == Calls(k) # <<>>

\* the first call of the sub-parser at place k
Ev(k) == Calls(k)[1]

\* where in the log the first call of the sub-parser at place k is
At(k) == CHOOSE j \in 1..Len(last.log) :
            /\ last.log[j].path = <<k>>
            /\ \A i \in 1..(j - 1) : last.log[i].path # <<k>>

\* the characters consumed by the successful calls among es
RECURSIVE Consumed(_)
Consumed(es) ==
    IF es = <<>> THEN 0
    ELSE (IF Head(es).r.k = "ok" THEN Head(es).ix1 - Head(es).ix0 ELSE 0)
         + Consumed(Tail(es))

\* how many of the calls es succeeded
Successes(es) == Len(SelectSeq(es, LAMBDA e : e.r.k = "ok"))

\* C2: a Sequence whose first failing sub-parser is pk returns pk's error,
\* calls no sub-parser after pk and leaves index() where it was before the
\* call; a Sequence whose sub-parsers all succeed returns their results in
\* declaration order.
C2_SequenceFirstFailure ==
    (last.op = "parse" /\ Root.t = "Sequence") =>
        LET n == Len(Root.ps)
        IN /\ Ran(1)
           /\ \A k \in 2..n : Ran(k) => (Ran(k - 1) /\ Ev(k - 1).r.k = "ok")
           /\ \A k \in 1..n : Len(Calls(k)) <= 1
           /\ \A k \in 1..n :
                (Ran(k) /\ Ev(k).r.k = "err") =>
                    /\ last.r = Err(Ev(k).r.v)
                    /\ \A j \in (k + 1)..n : ~Ran(j)
                    /\ index(st) = last.ix0
           /\ (\A k \in 1..n : Ran(k) /\ Ev(k).r.k = "ok") =>
                    /\ last.r.k = "ok"
                    /\ last.r.v = [k \in 1..n |-> Ev(k).r.v]

\* a Sequence of three whose first sub-parser consumed input and whose second
\* failed
C2_Witness ==
    /\ last.op = "parse" /\ Root.t = "Sequence" /\ Len(Root.ps) = 3
    /\ Ev(1).r.k = "ok" /\ Ev(1).ix1 > Ev(1).ix0
    /\ Ran(2) /\ Ev(2).r.k = "err" /\ Ev(2).ix1 > Ev(2).ix0
    /\ last.r.k = "err"

\* C3: an Alternative tries its options in declaration order, each from the
\* position the Alternative was called at; it returns the result of the first
\* option that succeeds, leaves the cursor where that option left it, and
\* calls no later option.
C3_AlternativeOrdered ==
    (last.op = "parse" /\ Root.t = "Alternative") =>
        LET n == Len(Root.ps)
        IN /\ Ran(1)
           /\ \A k \in 2..n :
                Ran(k) => (Ran(k - 1) /\ Ev(k - 1).r.k = "err" /\ At(k - 1) < At(k))
           /\ \A k \in 1..n : Len(Calls(k)) <= 1
           /\ \A k \in 1..n : Ran(k) => Ev(k).ix0 = last.ix0
           /\ \A k \in 1..n :
                (Ran(k) /\ Ev(k).r.k = "ok") =>
                    /\ last.r = Ev(k).r
                    /\ index(st) = Ev(k).ix1
                    /\ \A j \in (k + 1)..n : ~Ran(j)

\* the second option succeeded after the first had failed part-way through,
\* and the third, which was not called, would have matched more input
C3_Witness ==
    /\ last.op = "parse" /\ Root.t = "Alternative" /\ Len(Root.ps) = 3
    /\ Ev(1).r.k = "err" /\ Ev(1).ix1 > Ev(1).ix0
    /\ Ran(2) /\ Ev(2).r.k = "ok" /\ ~Ran(3)
    /\ LET o3 == parse(Root.ps[3], <<3>>, [s |-> last.s0, log |-> <<>>])
       IN o3.r.k = "ok" /\ index(o3.c.s) > index(st)

\* C4: an Alternative whose options all fail returns
\* Fail("no alternative matched", p), p being index() before the call, and
\* leaves index() at p.
C4_AlternativeExhausted ==
    (/\ last.op = "parse" /\ Root.t = "Alternative"
     /\ \A k \in 1..Len(Root.ps) : Ran(k) /\ Ev(k).r.k = "err") =>
        /\ last.r = Err(Fail("no alternative matched", last.ix0))
        /\ index(st) = last.ix0

\* every option failed, one of them after the cursor was away from position
\* 0, and with an error other than the generic one
C4_Witness ==
    /\ last.op = "parse" /\ Root.t = "Alternative"
    /\ \A k \in 1..Len(Root.ps) : Ran(k) /\ Ev(k).r.k = "err"
    /\ last.ix0 > 0
    /\ \E k \in 1..Len(Root.ps) : Ev(k).ix1 > Ev(k).ix0
    /\ Ev(Len(Root.ps)).r.v # Fail("no alternative matched", last.ix0)
    /\ last.r.k = "err"

\* C5: a Repeat that succeeds returns n results with min <= n <= max, and a
\* Repeat whose inner parser succeeded fewer than min times fails.
C5_RepeatWithinBounds ==
    (last.op = "parse" /\ Root.t = "Repeat") =>
        LET b == repeat_bounds(Root.repeat)
        IN /\ last.r.k = "ok" => (b[1] <= Len(last.r.v) /\ Len(last.r.v) <= b[2])
           /\ (Returned(last.r) /\ Successes(Calls(1)) < b[1]) => last.r.k = "err"

\* C6: a Repeat that succeeds has advanced index() by what the successful
\* runs of the inner parser consumed; a Repeat that fails leaves index()
\* where it was and returns the error of the failing run.
C6_RepeatNetConsumption ==
    (last.op = "parse" /\ Root.t = "Repeat") =>
        /\ last.r.k = "ok" => index(st) - last.ix0 = Consumed(Calls(1))
        /\ last.r.k = "err" =>
              /\ index(st) = last.ix0
              /\ last.r.v = Calls(1)[Len(Calls(1))].r.v

\* C7: a Then that returns an error leaves index() where it was; a Then that
\* succeeds returns b's result and has advanced by what a and b consumed.
C7_ThenRestores ==
    (last.op = "parse" /\ Root.t = "Then") =>
        /\ last.r.k = "err" => index(st) = last.ix0
        /\ last.r.k = "ok" =>
              /\ last.r = Ev(2).r
              /\ index(st) - last.ix0 = Consumed(Calls(1)) + Consumed(Calls(2))

\* C8: a Transform whose parser succeeds and whose function returns the
\* error e returns a TransformFail that wraps e; a Transform whose parser
\* fails returns that error and does not call the function.
C8_TransformWrapsCause ==
    (last.op = "parse" /\ Root.t = "Transform") =>
        /\ (Ev(1).r.k = "ok" /\ Ran(0) /\ Ev(0).r.k = "err") =>
              /\ last.r.k = "err"
              /\ last.r.v[1] = "TransformFail"
              /\ Len(last.r.v) = 4
              /\ last.r.v[4] = Ev(0).r.v
        /\ Ev(1).r.k = "err" => (last.r = Ev(1).r /\ ~Ran(0))

\* C9: a Transform whose parser consumed input and whose function then
\* returned an error fails with index() where it was before the call.
C9_TransformUndoes ==
    (/\ last.op = "parse" /\ Root.t = "Transform"
     /\ Ev(1).r.k = "ok" /\ Ev(1).ix1 > Ev(1).ix0
     /\ Ran(0) /\ Ev(0).r.k = "err") =>
        /\ last.r.k = "err"
        /\ index(st) = last.ix0

\* C10: Maybe(p) never returns an error, and ends as Repeat(p, Max(1)) called
\* on the same stream ends: Some(r) for [r], None for the empty vector, the
\* same index().
C10_MaybeIsRepeatMax1 ==
    (last.op = "parse" /\ Root.t = "Maybe") =>
        LET rep == parse(Repeat_new(Root.inner, <<"Max", 1>>), <<>>,
                         [s |-> last.s0, log |-> <<>>])
        IN /\ last.r.k # "err"
           /\ last.r.k = rep.r.k
           /\ last.r.k = "ok" =>
                /\ Len(last.r.v) <= 1
                /\ Len(last.r.v) = Len(rep.r.v)
                /\ last.r.v = rep.r.v
                /\ index(st) = index(rep.c.s)

\* Maybe returned None for an inner parser that failed part-way through
C10_Witness ==
    /\ last.op = "parse" /\ Root.t = "Maybe"
    /\ last.r = Ok(<<>>)
    /\ Ev(1).r.k = "err"
    /\ index(st) > last.ix0

\* C11: a PartialSequence never returns an error; it calls its sub-parsers in
\* declaration order, each at most once, none after the first that fails;
\* slot k of the tuple it returns is Some(result) if sub-parser k was called
\* and succeeded, None if it failed or was not called.
C11_PartialSequenceStops ==
    (last.op = "parse" /\ Root.t = "PartialSequence") =>
        LET n == Len(Root.ps)
        IN /\ last.r.k # "err"
           /\ Ran(1)
           /\ \A k \in 2..n :
                Ran(k) => (Ran(k - 1) /\ Ev(k - 1).r.k = "ok" /\ At(k - 1) < At(k))
           /\ \A k \in 1..n : Len(Calls(k)) <= 1
           /\ Returned(last.r) =>
                /\ Len(last.r.v) = n
                /\ \A k \in 1..n :
                     last.r.v[k] = IF Ran(k) /\ Ev(k).r.k = "ok"
                                   THEN <<Ev(k).r.v>> ELSE <<>>

\* a PartialSequence of three whose first sub-parser succeeded and whose
\* second failed after consuming input, although the third would have
\* matched there
C11_Witness ==
    /\ last.op = "parse" /\ Root.t = "PartialSequence" /\ Len(Root.ps) = 3
    /\ last.r.k = "ok" /\ last.r.v[1] # <<>> /\ last.r.v[2] = <<>>
    /\ Ev(2).r.k = "err" /\ Ev(2).ix1 > Ev(2).ix0
    /\ ~Ran(3)
    /\ parse(Root.ps[3], <<3>>, [s |-> st, log |-> <<>>]).r.k = "ok"

\* the largest number of repetitions of the Repeat at the root
RootMax == repeat_bounds(Root.repeat)[2]

\* C25: a Repeat with a finite max of at least 1 calls its parser at most max
\* times; once max calls have succeeded it returns Ok with the max results,
\* having called its parser max times and leaving index() where the last of
\* them left it.
C25_RepeatStopsAtMax ==
    (last.op = "parse" /\ Root.t = "Repeat"
       /\ Root.repeat[1] \in {"Max", "Between"} /\ RootMax >= 1) =>
        /\ Len(Calls(1)) <= RootMax
        /\ Successes(Calls(1)) >= RootMax =>
              /\ last.r.k = "ok"
              /\ Len(last.r.v) = RootMax
              /\ Len(Calls(1)) = RootMax
              /\ index(st) = Calls(1)[RootMax].ix1

\* a Repeat of at most two "a" has returned two of them, and the next
\* character is an "a" again
C25_Witness ==
    /\ last.op = "parse" /\ Root.t = "Repeat"
    /\ Root.repeat = <<"Max", 2>> /\ Root.inner = pA
    /\ last.r = Ok(<<<<"a">>, <<"a">>>>)
    /\ peek(st).c = <<"a">>

MaxCalls == 3

\* the parsers with Lazy parts; the ids of the parts of one parser differ
LazyParsers ==
    << Lazy_new(1, pA),
       Alternative_new(<<pA, Lazy_new(1, pB)>>),
       Alternative_new(<<Nothing, Lazy_new(1, pA)>>),
       Repeat_new(Lazy_new(1, pA), <<"Any">>),
       Sequence_new(<<Lazy_new(1, pA), Lazy_new(2, pB)>>),
       Lazy_new(1, Lazy_new(2, pA)),
       Maybe_new(Lazy_new(1, pThenAB)) >>

\* let mut p = ...: the client builds one of the parsers, every Lazy in it
\* being Lazy(f, None)
NewLazy ==
    /\ stopped = "no"
    /\ lazy.pid = 0
    /\ \E i \in 1..Len(LazyParsers) :
         lazy' = [pid |-> i, cells |-> <<Lazy_cell, Lazy_cell>>]
    /\ last' = [op |-> "new_lazy"]
    /\ UNCHANGED <<input, build, calls, st, stopped, holds>>

\* the step of ParseLazy, the call having ended as o
ParsedLazy(o) ==
    /\ st' = o.c.s
    /\ stopped' = IF Returned(o.r) THEN "no" ELSE o.r.k
    /\ lazy' = [lazy EXCEPT !.cells = o.c.lazy]
    /\ last' = [op |-> "lazy", ix0 |-> index(st), r |-> o.r]

\* p.parse(&mut st) for the parser the client built
ParseLazy ==
    /\ stopped = "no"
    /\ lazy.pid # 0
    /\ \A k \in 1..Len(lazy.cells) : lazy.cells[k].calls < MaxCalls
    /\ ParsedLazy(parse(LazyParsers[lazy.pid], <<>>,
                        [s |-> st, log |-> <<>>, lazy |-> lazy.cells]))
    /\ UNCHANGED <<input, build, calls, holds>>

NextLazy ==
    \/ CallNext
    \/ NewLazy
    \/ ParseLazy

SpecLazy == Init /\ [][NextLazy]_vars

\* C12: the constructor of a Lazy has run once if parse() has been called on
\* the instance, however often and with whatever result, and not at all if
\* it has not; the instance holds its parser exactly when the constructor
\* has run.
C12_LazyBuildsOnce ==
    \A k \in 1..Len(lazy.cells) :
        /\ lazy.cells[k].runs = (IF lazy.cells[k].calls > 0 THEN 1 ELSE 0)
        /\ (lazy.cells[k].p # <<>>) <=> (lazy.cells[k].runs = 1)

\* a Sequence of two Lazy parts that has failed twice at the first: the
\* first was called twice and built once, the second was never called
C12_Witness ==
    /\ lazy.pid # 0 /\ LazyParsers[lazy.pid].t = "Sequence"
    /\ last.op = "lazy" /\ last.r.k = "err"
    /\ lazy.cells[1].calls >= 2 /\ lazy.cells[1].runs = 1
    /\ lazy.cells[2].calls = 0 /\ lazy.cells[2].runs = 0
    /\ lazy.cells[2].p = <<>>

(***************************************************************************)
(* The primitives StringParser and Int, called on strings of letters (one  *)
(* of them two bytes long in UTF-8) and on integer tokens: an optional     *)
(* "-", a run of digits, and what follows the run.                         *)
(***************************************************************************)
\* most digits in a token: one more than BUFSIZE, so that with and without
\* a sign there are tokens shorter than, as long as and longer than BUFSIZE
MaxDigits == 17
\* most digits in the tokens that are made of every combination of digits
MaxShort == 3

\* the digits short tokens are made of: what the bounds of i8 are written in
ShortDigits == {"0", "1", "2", "7", "8"}

\* n zeros
Zeros(n) == [k \in 1..n |-> "0"]

\* the n digits 1 2 3 ... 9 0 1 2 ...
Counting(n) ==
    [k \in 1..n |-> <<"1", "2", "3", "4", "5", "6", "7", "8", "9", "0">>[((k - 1) % 10) + 1]]

\* runs of digits: every short one, and long ones around BUFSIZE that are a
\* small number with zeros before it, or have no two neighbours alike
DigitRuns ==
    UNION {[1..n -> ShortDigits] : n \in 0..MaxShort}
    \cup {Zeros(n - 3) \o t : n \in (BUFSIZE - 2)..MaxDigits,
                              t \in {<<"1", "2", "7">>, <<"1", "2", "8">>}}
    \cup {Counting(n) : n \in (BUFSIZE - 2)..MaxDigits}

IntInputs ==
    {sign \o run \o rest :
        sign \in {<<>>, <<"-">>}, run \in DigitRuns,
        rest \in {<<>>, <<"a">>, <<"-">>}}

LetterInputs == UNION {[1..n -> {"a", "ü"}] : n \in 0..MaxLen}

InitPrim == Started(IntInputs \cup LetterInputs)

PrimParsers ==
    << Int8_new, Uint8_new, Int16_new,
       StringParser_new(<<>>),
       StringParser_new(<<"a">>),
       StringParser_new(<<"ü">>),
       StringParser_new(<<"a", "ü">>),
       StringParser_new(<<"ü", "a">>),
       StringParser_new(<<"ü", "ü", "a">>) >>

\* the step of ParsePrim for parser i, the call having ended as o
ParsedPrim(i, o) ==
    /\ st' = o.c.s
    /\ stopped' = IF Returned(o.r) THEN "no" ELSE o.r.k
    /\ last' = [op |-> "prim", pid |-> i, ix0 |-> index(st),
                r |-> o.r, log |-> o.c.log]

\* p.parse(&mut st) for one of the primitives
ParsePrim ==
    /\ stopped = "no"
    /\ last.op # "prim"
    /\ \E i \in 1..Len(PrimParsers) :
         ParsedPrim(i, parse(PrimParsers[i], <<>>, [s |-> st, log |-> <<>>]))
    /\ UNCHANGED <<input, build, calls, lazy, holds>>

NextPrim ==
    \/ CallNext
    \/ ParsePrim

SpecPrim == InitPrim /\ [][NextPrim]_vars

\* the primitive the client called last
Prim == PrimParsers[last.pid]

\* the input that was left when the primitive was called
Rest == SubSeq(input, last.ix0 + 1, Len(input))

\* str is a prefix of the string of
StartsWith(of, str) == Len(str) <= Len(of) /\ SubSeq(of, 1, Len(str)) = str

\* C13: a StringParser for s called where the remaining input starts with s
\* returns Ok(s) and has advanced index() by the number of characters of s;
\* called elsewhere it returns an error and index() is what it was.
C13_StringParserMatches ==
    (last.op = "prim" /\ Prim.t = "StringParser") =>
        IF StartsWith(Rest, Prim.s)
        THEN last.r = Ok(Prim.s) /\ index(st) = last.ix0 + Len(Prim.s)
        ELSE last.r.k = "err" /\ index(st) = last.ix0

\* a string of two characters and three bytes was matched in the middle of
\* the input
C13_Witness ==
    /\ last.op = "prim" /\ Prim.t = "StringParser"
    /\ Len(Prim.s) = 2 /\ str_len(Prim.s) = 3
    /\ last.ix0 > 0 /\ last.r.k = "ok"
    /\ index(st) = last.ix0 + 2

(***************************************************************************)
(* What an integer token is, read from the input without the parser.       *)
(***************************************************************************)
\* how many digits str begins with
RECURSIVE DigitsAt(_)
DigitsAt(str) ==
    IF str # <<>> /\ is_digit(Head(str)) THEN 1 + DigitsAt(Tail(str)) ELSE 0

\* 1 if the input left begins with a sign that the type called for takes
SignLen == IF Prim.signed /\ Rest # <<>> /\ Head(Rest) = "-" THEN 1 ELSE 0

\* how many digits follow the sign
RunLen == DigitsAt(SubSeq(Rest, SignLen + 1, Len(Rest)))

\* the longest prefix of the input left that is a sign and digits
Token == SubSeq(Rest, 1, SignLen + RunLen)

\* str without the zeros it begins with
RECURSIVE Significant(_)
Significant(str) ==
    IF str # <<>> /\ Head(str) = "0" THEN Significant(Tail(str)) ELSE str

\* the number a short run of digits is the decimal numeral of
RECURSIVE Decimal(_)
Decimal(str) ==
    IF str = <<>> THEN 0
    ELSE Decimal(SubSeq(str, 1, Len(str) - 1)) * 10 + to_digit(str[Len(str)])

\* the digits of the token that count; more than five of them make a number
\* beyond every type of 16 bits
TokenDigits == Significant(SubSeq(Rest, SignLen + 1, SignLen + RunLen))

\* the value of the token, when it has at most five digits that count
TokenValue == (IF SignLen = 1 THEN -1 ELSE 1) * Decimal(TokenDigits)

TokenInRange ==
    /\ Len(TokenDigits) <= 5
    /\ Prim.min <= TokenValue /\ TokenValue <= Prim.max

\* C14: an Int parser that returns an error leaves index() where it was and
\* peek() returns what it returned before; and it does return an error for
\* an unsigned type at a "-", at a character that is no digit, for a signed
\* type at a "-" that no digit follows, at the end of the input, and at a run
\* of digits whose value does not fit the type.
C14_IntFailureRestores ==
    (last.op = "prim" /\ Prim.t = "Int") =>
        /\ last.r.k = "err" =>
              /\ stopped = "no"
              /\ index(st) = last.ix0
              /\ peek(st).c = SubSeq(Rest, 1, Min2(1, Len(Rest)))
        /\ (~Prim.signed /\ Rest # <<>> /\ Head(Rest) = "-") => last.r.k = "err"
        /\ (Rest # <<>> /\ ~is_digit(Head(Rest)) /\ Head(Rest) # "-")
              => last.r.k = "err"
        /\ (Prim.signed /\ SignLen = 1 /\ RunLen = 0) => last.r.k = "err"
        /\ Rest = <<>> => last.r.k = "err"
        /\ (RunLen > 0 /\ ~TokenInRange) => last.r.k = "err"

\* a signed parser had consumed a sign and more digits than fit the type,
\* with more input behind them, when the conversion failed
C14_Witness ==
    /\ last.op = "prim" /\ Prim.t = "Int" /\ Prim.signed
    /\ SignLen = 1 /\ RunLen > 3 /\ Len(Rest) > Len(Token)
    /\ last.r = Err(ExecFail("number too small to fit in target type"))
    /\ Ran(0) /\ Ev(0).ix1 = last.ix0 + Len(Token)
    /\ index(st) = last.ix0

\* C15: an Int parser called where a token ([sign] digit+, the sign only for
\* a signed type) begins returns the value of the longest such token and
\* leaves index() behind it, when the value is in the range of the type;
\* when it is not, it returns an ExecFail; called where no token begins, it
\* returns an error.
C15_IntLongestToken ==
    (last.op = "prim" /\ Prim.t = "Int") =>
        /\ (RunLen > 0 /\ TokenInRange) =>
              /\ last.r = Ok(TokenValue)
              /\ index(st) = last.ix0 + Len(Token)
        /\ (RunLen > 0 /\ ~TokenInRange) =>
              /\ last.r.k = "err"
              /\ last.r.v[1] = "ExecFail"
        /\ RunLen = 0 => last.r.k = "err"

\* the smallest value of a signed type, parsed up to a character that is
\* not a digit
C15_Witness ==
    /\ last.op = "prim" /\ Prim.t = "Int" /\ Prim.signed
    /\ SignLen = 1 /\ RunLen > 0 /\ Len(Rest) > Len(Token)
    /\ TokenValue = Prim.min
    /\ last.r = Ok(Prim.min)
    /\ index(st) = last.ix0 + Len(Token)

\* C16: the string an Int parser hands to from_str is the token, the
\* characters it consumed, whether the token is shorter than, as long as or
\* longer than BUFSIZE; the result is from_str's of the token, and index()
\* is behind the token after Ok and where it was after an error.
C16_IntBufferTransparent ==
    (last.op = "prim" /\ Prim.t = "Int") =>
        /\ Ran(0) <=> (Returned(last.r) /\ Token # <<>>)
        /\ Ran(0) =>
              /\ Len(Calls(0)) = 1
              /\ Ev(0).arg = SubSeq(input, last.ix0 + 1, Ev(0).ix1)
              /\ Ev(0).arg = Token
              /\ Ev(0).r = from_str(Prim, Token)
              /\ last.r = IF Ev(0).r.k = "ok" THEN Ev(0).r
                          ELSE Err(ExecFail(description(Ev(0).r.v)))
              /\ index(st) = IF Ev(0).r.k = "ok" THEN last.ix0 + Len(Token)
                             ELSE last.ix0

\* a token of a sign and BUFSIZE digits, one character more than the fixed
\* buffer holds, was parsed to a number
C16_Witness ==
    /\ last.op = "prim" /\ Prim.t = "Int"
    /\ SignLen = 1 /\ RunLen = BUFSIZE
    /\ Ran(0) /\ Len(Ev(0).arg) = BUFSIZE + 1
    /\ last.r.k = "ok" /\ last.r.v < 0

(***************************************************************************)
(* Character classes: a client creates a stream, reads from it with next() *)
(* and calls parse() on a OneOf, or on a parser made by string_of or       *)
(* string_none_of.                                                         *)
(***************************************************************************)
\* n times the character ch
Times(n, ch) == [k \in 1..n |-> ch]

CharInputs == UNION {[1..n -> {"a", "ü", "1", "-"}] : n \in 0..MaxLen}

InitChars == Started(CharInputs)

\* the sets a OneOf is made for: of 0, 1, 2, 3, 20 and 21 bytes, the last two
\* being on either side of MATCHSPEC_MANY_THRESHOLD
CharSets ==
    << <<"a">>,
       <<"ü">>,
       <<>>,
       <<"a", "ü">>,
       <<"-", "1", "a">>,
       Times(10, "ü"),
       Times(10, "ü") \o <<"-">>,
       <<"0", "1", "2", "3", "4", "5", "6", "7", "8", "9",
         "a", "b", "c", "d", "e", "f", "g", "h", "i", "j", "k">> >>

\* the sets string_of and string_none_of are called with
StringSets == << <<"a", "ü">>, Times(10, "ü") \o <<"-">> >>

\* what the client constructs: OneOf::new(chars), OneOf::new_none_of(chars),
\* string_of(chars, rp) or string_none_of(chars, rp)
OneOfMade ==
    [n \in 1..(2 * Len(CharSets)) |->
        [fn |-> "OneOf", chars |-> CharSets[((n - 1) % Len(CharSets)) + 1],
         none |-> n > Len(CharSets), rp |-> <<"Any">>]]

StringOfMade ==
    [n \in 1..(2 * Len(StringSets) * Len(RepeatSpecs)) |->
        [fn |-> "string_of",
         chars |-> StringSets[(((n - 1) \div Len(RepeatSpecs)) % Len(StringSets)) + 1],
         none |-> n > Len(StringSets) * Len(RepeatSpecs),
         rp |-> RepeatSpecs[((n - 1) % Len(RepeatSpecs)) + 1]]]

CharsMade == OneOfMade \o StringOfMade

\* the parser the constructor called as m returns
Made(m) ==
    IF m.fn = "OneOf"
    THEN IF m.none THEN OneOf_new_none_of(m.chars) ELSE OneOf_new(m.chars)
    ELSE IF m.none THEN string_none_of(m.chars, m.rp) ELSE string_of(m.chars, m.rp)

\* the step of ParseChars for parser i, the call having ended as o
ParsedChars(i, o) ==
    /\ st' = o.c.s
    /\ stopped' = IF Returned(o.r) THEN "no" ELSE o.r.k
    /\ last' = [op |-> "chars", pid |-> i, ix0 |-> index(st),
                r |-> o.r, log |-> o.c.log]

\* p.parse(&mut st) for one of the parsers made
ParseChars ==
    /\ stopped = "no"
    /\ last.op # "chars"
    /\ \E i \in 1..Len(CharsMade) :
         ParsedChars(i, parse(Made(CharsMade[i]), <<>>, [s |-> st, log |-> <<>>]))
    /\ UNCHANGED <<input, build, calls, lazy, holds>>

NextChars ==
    \/ CallNext
    \/ ParseChars

SpecChars == InitChars /\ [][NextChars]_vars

\* how the parser called last was made
Chars == CharsMade[last.pid]

\* ch is one of the characters the parser called last is to take
Taken(ch) == (\E i \in 1..Len(Chars.chars) : Chars.chars[i] = ch) # Chars.none

\* C28: OneOf::new(set) returns Ok(c) and advances index() by one where the
\* next character c is in set, OneOf::new_none_of(set) where it is not in
\* set; otherwise they return an error that is not EOF and leave index() as
\* it was; at the end of the input they return EOF. This holds whichever of
\* One, Some and Many the set is stored as.
C28_OneOfBySet ==
    (last.op = "chars" /\ Chars.fn = "OneOf") =>
        IF Rest = <<>>
        THEN last.r = Err(EOF_) /\ index(st) = last.ix0
        ELSE IF Taken(Rest[1])
             THEN last.r = Ok(Rest[1]) /\ index(st) = last.ix0 + 1
             ELSE /\ last.r.k = "err" /\ last.r.v # EOF_
                  /\ index(st) = last.ix0

\* a OneOf whose set is stored as a HashSet has taken a character of two
\* bytes in the middle of the input
C28_Witness ==
    /\ last.op = "chars" /\ Chars.fn = "OneOf" /\ ~Chars.none
    /\ Made(Chars).spec[1] = "Many"
    /\ last.ix0 > 0
    /\ last.r = Ok("ü")
    /\ index(st) = last.ix0 + 1

\* how many characters at the start of str the parser called last is to take
RECURSIVE Run(_)
Run(str) == IF str # <<>> /\ Taken(Head(str)) THEN 1 + Run(Tail(str)) ELSE 0

\* the smallest and the largest number of characters of the parser called
\* last
CharsMin == repeat_bounds(Chars.rp)[1]

CharsMax == repeat_bounds(Chars.rp)[2]

\* C27: string_of(set, rp) and string_none_of(set, rp), for rp with min <=
\* max, return the longest prefix of the remaining input whose characters
\* are all in set (all not in set), cut at max characters, and leave index()
\* after it; where fewer than min such characters are there they return an
\* error and leave index() as it was.
C27_StringOfLongestPrefix ==
    (last.op = "chars" /\ Chars.fn = "string_of" /\ CharsMin <= CharsMax) =>
        IF Run(Rest) < CharsMin
        THEN last.r.k = "err" /\ index(st) = last.ix0
        ELSE /\ last.r = Ok(SubSeq(Rest, 1, Min2(Run(Rest), CharsMax)))
             /\ index(st) = last.ix0 + Min2(Run(Rest), CharsMax)

(***************************************************************************)
(* Holds inside parsers: a client that holds nothing itself creates a      *)
(* stream, reads from it with next() and calls parse() on a parser made of *)
(* the parsers that take holds.                                            *)
(***************************************************************************)
p1 == StringParser_new(<<"1">>)
pDash == StringParser_new(<<"-">>)

HoldParsers ==
    << StringParser_new(<<"a", "ü">>),
       Int8_new,
       Sequence_new(<<Int8_new, pA>>),
       Sequence_new(<<pA, Int8_new, pDash>>),
       Sequence_new(<<Repeat_new(pA, <<"Any">>), Int8_new>>),
       Sequence_new(<<pA, Sequence_new(<<p1, Alternative_new(<<pA, pDash>>)>>)>>),
       Alternative_new(<<Ignore_new(Int8_new), Ignore_new(pA)>>),
       Alternative_new(<<Sequence_new(<<pA, p1>>), Sequence_new(<<pA, pDash>>)>>),
       Alternative_new(<<Then_new(pA, pA), Then_new(pA, p1), Then_new(pA, pDash)>>),
       Alternative_new(<<string_of(<<"a">>, <<"Min", 2>>), pA>>),
       PartialSequence_new(<<pA, Int8_new, pA>>),
       PartialSequence_new(<<Maybe_new(pA), Sequence_new(<<p1, pDash>>)>>),
       Repeat_new(Int8_new, <<"Any">>),
       Repeat_new(Alternative_new(<<pA, p1>>), <<"Min", 2>>),
       Repeat_new(Sequence_new(<<pA, Int8_new>>), <<"Between", 1, 2>>),
       Repeat_new(Repeat_new(pA, <<"Between", 1, 2>>), <<"Max", 2>>),
       Repeat_new(pA, <<"Max", 0>>),
       Maybe_new(Sequence_new(<<Int8_new, pDash>>)),
       string_none_of(<<"-">>, <<"Min", 1>>),
       Then_new(Sequence_new(<<pA, p1>>), Alternative_new(<<pA, pDash>>)) >>

\* the step of ParseHolds for parser i, the call having ended as o
ParsedHolds(i, o) ==
    /\ st' = o.c.s
    /\ stopped' = IF Returned(o.r) THEN "no" ELSE o.r.k
    /\ last' = [op |-> "holds", pid |-> i, ix0 |-> index(st),
                r |-> o.r, log |-> o.c.log]

\* p.parse(&mut st) for one of the parsers
ParseHolds ==
    /\ stopped = "no"
    /\ last.op # "holds"
    /\ \E i \in 1..Len(HoldParsers) :
         ParsedHolds(i, parse(HoldParsers[i], <<>>, [s |-> st, log |-> <<>>]))
    /\ UNCHANGED <<input, build, calls, lazy, holds>>

NextHolds ==
    \/ CallNext
    \/ ParseHolds

SpecHolds == InitChars /\ [][NextHolds]_vars

\* C30: a call of parse() that returns, made where no hold is unresolved,
\* has given every hold it took to release() or reset(), each time the
\* youngest one not yet given, and leaves oldest_hold_count empty.
C30_HoldsResolvedNested ==
    (last.op = "holds" /\ Returned(last.r)) =>
        /\ st.open = <<>>
        /\ st.lifo
        /\ st.oldest_hold_count = <<>>

\* a Sequence of "a", an Int8 and "-" was called on "a-a": the Int8 took a
\* hold at the "-" and reset it where no digit followed, and the Sequence
\* then reset its own
C30_Witness ==
    /\ last.op = "holds"
    /\ HoldParsers[last.pid] = Sequence_new(<<pA, Int8_new, pDash>>)
    /\ input = <<"a", "-", "a">> /\ last.ix0 = 0
    /\ \E j \in 1..Len(last.log) :
          /\ last.log[j].path = <<2>>
          /\ last.log[j].r.k = "err"
          /\ last.log[j].ix0 = 1 /\ last.log[j].ix1 = 1
    /\ last.r.k = "err"
    /\ index(st) = 0

(***************************************************************************)
(* The JSON example: a client creates a stream over a text, reads from it  *)
(* with next() and calls ValueParser.parse().                              *)
(***************************************************************************)
\* longest text made of every combination of JsonAlphabet
MaxJson == 2

JsonAlphabet == {"[", "]", "{", "}", "\"", ":", ",", "1", " "}

\* longer texts: the literal null alone and in a list, numbers with sign,
\* fraction and exponent, lists and dicts as in the tests of the example
JsonTexts ==
    { <<"n", "u", "l", "l">>,
      <<"[", "n", "u", "l", "l", "]">>,
      <<"-", "1", ".", "5", "e", "-", "1", "]">>,
      <<"1", ".", "e", "1">>,
      <<"1", "e", "-", ",">>,
      <<"[", "1", ",", " ", "\"", "H", "\"", ",", "]">>,
      <<"[", "[", "]", " ", "1", "]", "1">>,
      <<"{", "\"", "x", "\"", ":", " ", "4", "}">>,
      <<"{", "\"", "a", "\"", ":", "[", "1", "]", ",", "\"", "a", "\"", ":", "2", ",", "}">>,
      <<"{", "\"", "a", "\"", " ", "1", "}">>,
      <<"{", "1", ":", "1", "}">>,
      <<"\"", "a", "b">>,
      <<"[", "[", "]", "]">>,
      <<"[", "[", "]", ",", " ", "[", "1", ",", "]", "]", "x">>,
      <<"{", "\"", "a", "\"", ":", "{", "\"", "b", "\"", ":", "[", "]", "}", "}">>,
      <<"{", "\"", "h", "e", "l", "l", "o", "\"", ":", " ", "[", "\"", "w", "o", "r", "l", "d", "\"", ",", " ", "[", "]", "]", ",", " ", "\"", "x", "\"", ":", " ", "4", "}">> }

JsonInputs == UNION {[1..n -> JsonAlphabet] : n \in 0..MaxJson} \cup JsonTexts

InitJson == Started(JsonInputs)

\* ValueParser.parse(&mut st) begins
BeginJson ==
    /\ stopped = "no"
    /\ last.op # "json"
    /\ calls = <<>>
    /\ calls' = <<[stack |-> <<>>, ix0 |-> index(st),
                   now |-> Calling(ValueParser, <<>>,
                                   [s |-> st, log |-> <<>>, lazy |-> <<>>])]>>
    /\ UNCHANGED <<input, build, lazy, holds, st, stopped, last>>

\* the stream as the calls m have it
stream_of(m) == IF m.now.k = "call" THEN m.now.c.s ELSE m.now.o.c.s

\* the call goes on to the next call or return of a parser
StepJson ==
    /\ calls # <<>>
    /\ ~finished_calls(calls[1])
    /\ LET m == advanced(calls[1])
       IN /\ calls' = <<[stack |-> m.stack, ix0 |-> calls[1].ix0,
                         now |-> m.now]>>
          /\ st' = stream_of(m)
    /\ UNCHANGED <<input, build, lazy, holds, stopped, last>>

\* ValueParser.parse(&mut st) has returned
EndJson ==
    /\ calls # <<>>
    /\ finished_calls(calls[1])
    /\ st' = calls[1].now.o.c.s
    /\ stopped' = IF Returned(calls[1].now.o.r) THEN "no" ELSE calls[1].now.o.r.k
    /\ last' = [op |-> "json", ix0 |-> calls[1].ix0, r |-> calls[1].now.o.r]
    /\ calls' = <<>>
    /\ UNCHANGED <<input, build, lazy, holds>>

\* s.next() between calls of the parser
NextBetween == calls = <<>> /\ CallNext

NextJson ==
    \/ NextBetween
    \/ BeginJson
    \/ StepJson
    \/ EndJson

SpecJson == InitJson /\ [][NextJson]_vars

\* Followed step by step, a call of parse() ends as the call made whole
\* does: with the same result, stream, log and Lazy cells.  Stated for the
\* parsers of SpecHolds and for every stream a client can hand them.
StepwiseAsWhole ==
    stopped = "no" =>
        \A i \in 1..Len(HoldParsers) :
            parse_stepwise(HoldParsers[i], <<>>, [s |-> st, log |-> <<>>])
                = parse(HoldParsers[i], <<>>, [s |-> st, log |-> <<>>])

\* The grammar
\*   Value = Number | String | List | Dict | null
\*   List  = '[' (ws Value ws ','?)* ']'
\*   Dict  = '{' (ws String ws ':' ws Value ws ','?)* '}'
\* read as a PEG over the text str from place i on, with Number =
\* '-'? digit+ ('.' digit*)? ('e' '-'? digit+)? and String = '"' [^"]* '"'.
\* Each operator gives the place after what it recognises, or 0.
At_(str, i) == IF i >= 1 /\ i <= Len(str) THEN str[i] ELSE ""

OrElse(a, b) == IF a # 0 THEN a ELSE b

AndThen(a, b) == IF a = 0 THEN 0 ELSE b

RECURSIVE RefSkip(_, _, _)
RefSkip(str, i, set) ==
    IF At_(str, i) \in set THEN RefSkip(str, i + 1, set) ELSE i

RefWs(str, i) == RefSkip(str, i, {" ", "\n", "\r", "\t"})

RefDigits(str, i) ==
    RefSkip(str, i, {"0", "1", "2", "3", "4", "5", "6", "7", "8", "9"})

RefOpt(str, i, ch) == IF At_(str, i) = ch THEN i + 1 ELSE i

RefLit(str, i, ch) == IF i # 0 /\ At_(str, i) = ch THEN i + 1 ELSE 0

\* digit+ from i on, or 0
RefSome(str, i) == IF RefDigits(str, i) > i THEN RefDigits(str, i) ELSE 0

\* ('e' '-'? digit+)? from i on
RefExp(str, i) ==
    IF At_(str, i) = "e" THEN OrElse(RefSome(str, RefOpt(str, i + 1, "-")), i)
    ELSE i

\* ('.' digit*)? from i on
RefFraction(str, i) ==
    IF At_(str, i) = "." THEN RefDigits(str, i + 1) ELSE i

RefNumberFrom(str, d) == AndThen(d, RefExp(str, RefFraction(str, d)))

RefNumber(str, i) == RefNumberFrom(str, RefSome(str, RefOpt(str, i, "-")))

RECURSIVE RefUntil(_, _, _)
RefUntil(str, i, ch) ==
    IF i > Len(str) THEN 0
    ELSE IF str[i] = ch THEN i + 1
    ELSE RefUntil(str, i + 1, ch)

RefString(str, i) ==
    IF At_(str, i) = "\"" THEN RefUntil(str, i + 1, "\"") ELSE 0

RefNull(str, i) ==
    IF SubSeq(str, i, Min2(i + 3, Len(str))) = <<"n", "u", "l", "l">>
    THEN i + 4 ELSE 0

RECURSIVE RefValue(_, _)
RECURSIVE RefElements(_, _)
RECURSIVE RefPairs(_, _)

\* (ws Value ws ','?)* from i on, v being what Value gave after the ws
RefElementsFrom(str, i, v) ==
    IF v = 0 THEN i
    ELSE RefElements(str, RefOpt(str, RefWs(str, v), ","))

RefElements(str, i) == RefElementsFrom(str, i, RefValue(str, RefWs(str, i)))

\* (ws String ws ':' ws Value ws ','?)* from i on, v being what
\* String ws ':' ws Value gave after the ws
RefPairsFrom(str, i, v) ==
    IF v = 0 THEN i
    ELSE RefPairs(str, RefOpt(str, RefWs(str, v), ","))

RefPairValue(str, c) == AndThen(c, RefValue(str, RefWs(str, c)))

RefPairKey(str, k) == AndThen(k, RefPairValue(str, RefLit(str, RefWs(str, k), ":")))

RefPairs(str, i) ==
    RefPairsFrom(str, i, RefPairKey(str, RefString(str, RefWs(str, i))))

RefList(str, i) ==
    IF At_(str, i) = "[" THEN RefLit(str, RefElements(str, i + 1), "]") ELSE 0

RefDict(str, i) ==
    IF At_(str, i) = "{" THEN RefLit(str, RefPairs(str, i + 1), "}") ELSE 0

RefValue(str, i) ==
    OrElse(RefNumber(str, i),
    OrElse(RefString(str, i),
    OrElse(RefList(str, i),
    OrElse(RefDict(str, i), RefNull(str, i)))))

\* C24: where the remaining input begins with a Value of the grammar,
\* ValueParser.parse() returns Ok and leaves index() after that Value;
\* elsewhere it returns an error and leaves index() as it was.
C24_ValueParserGrammar ==
    last.op = "json" =>
        IF RefValue(input, last.ix0 + 1) # 0
        THEN /\ last.r.k = "ok"
             /\ index(st) = RefValue(input, last.ix0 + 1) - 1
        ELSE /\ last.r.k = "err"
             /\ index(st) = last.ix0

\* C31: running the parsers leaves the cursor inside the buffer, 0 <= current
\* <= buf.len(), after every call, and every call of parse() made on the way
\* began and ended at such a position; peek() has not reached its
\* unreachable!() and the assertion of undo_next() has not failed.
C31_CursorInBuffer ==
    /\ st.current >= 0
    /\ st.current <= Len(st.buf)
    /\ st.fault = "no"
    /\ last.op = "holds" =>
          \A k \in 1..Len(last.log) :
              /\ last.log[k].ix0 \in 0..Len(st.buf)
              /\ last.log[k].ix1 \in 0..Len(st.buf)

\* Int8 has read "1" at the start of "1a": it took the "a" with next(), gave
\* it back with undo_next(), and left the cursor at 1 in a buffer of 2
C31_Witness ==
    /\ last.op = "holds" /\ last.pid = 2 /\ last.ix0 = 0
    /\ input = <<"1", "a">>
    /\ last.r = Ok(1)
    /\ st.current = 1 /\ Len(st.buf) = 2

(***************************************************************************)
(* primitives::float called on a stream: the client creates the stream     *)
(* and calls float().parse(), which is followed one sub-parser call at a   *)
(* time.  The inputs are the strings of up to MaxFloat characters made of  *)
(* a digit, the point, the exponent mark and the sign, and a few longer    *)
(* ones.                                                                   *)
(***************************************************************************)
MaxFloat == 4

FloatAlphabet == {"1", ".", "e", "-"}

FloatTexts ==
    { <<"-", "1", "2", ".", "5", "0", "e", "-", "1", "2">>,
      <<"1", "2", "3", "4", "5", "6">>,
      <<"1", ".", "2", ".", "3">>,
      <<"0", ".", "e", "1", "a">>,
      <<"a", "1">> }

FloatInputs == UNION {[1..n -> FloatAlphabet] : n \in 0..MaxFloat} \cup FloatTexts

InitFloat == Started(FloatInputs)

\* float().parse(&mut st) begins
BeginFloat ==
    /\ stopped = "no"
    /\ last.op # "float"
    /\ calls = <<>>
    /\ calls' = <<[stack |-> <<>>, ix0 |-> index(st),
                   now |-> Calling(float, <<>>,
                                   [s |-> st, log |-> <<>>, lazy |-> <<>>])]>>
    /\ UNCHANGED <<input, build, lazy, holds, st, stopped, last>>

\* the call goes on to the next call or return of a parser
StepFloat ==
    /\ calls # <<>>
    /\ ~finished_calls(calls[1])
    /\ LET m == advanced(calls[1])
       IN /\ calls' = <<[stack |-> m.stack, ix0 |-> calls[1].ix0,
                         now |-> m.now]>>
          /\ st' = stream_of(m)
    /\ UNCHANGED <<input, build, lazy, holds, stopped, last>>

\* float().parse(&mut st) has returned
EndFloat ==
    /\ calls # <<>>
    /\ finished_calls(calls[1])
    /\ st' = calls[1].now.o.c.s
    /\ stopped' = IF Returned(calls[1].now.o.r) THEN "no" ELSE calls[1].now.o.r.k
    /\ last' = [op |-> "float", ix0 |-> calls[1].ix0, r |-> calls[1].now.o.r,
                log |-> calls[1].now.o.c.log]
    /\ calls' = <<>>
    /\ UNCHANGED <<input, build, lazy, holds>>

NextFloat ==
    \/ NextBetween
    \/ BeginFloat
    \/ StepFloat
    \/ EndFloat

SpecFloat == InitFloat /\ [][NextFloat]_vars

\* the calls logged at path in the call of float() that ended last
FloatLogged(path) ==
    {k \in 1..Len(last.log) : last.log[k].path = path}

\* C32: in no call of float() does assemble_float panic: the call of the
\* closure, logged at <<0>>, never ends in a panic; and the Sequence, logged
\* at <<1>>, never returns fractional digits without a point.
C32_AssembleFloatAssertion ==
    last.op = "float" =>
        /\ \A k \in FloatLogged(<<0>>) : last.log[k].r.k # "panic"
        /\ \A k \in FloatLogged(<<1>>) :
              (last.log[k].r.k = "ok" /\ last.log[k].r.v[3] = <<>>)
                  => last.log[k].r.v[4] = <<>>

\* float() has read "1." at the start of "1.e": a point and no digits after
\* it, made 1.0 by assemble_float
C32_Witness ==
    /\ last.op = "float" /\ last.ix0 = 0
    /\ input = <<"1", ".", "e">>
    /\ \E k \in FloatLogged(<<1>>) :
          /\ last.log[k].r.k = "ok"
          /\ last.log[k].r.v[3] = <<<<".">>>>
          /\ last.log[k].r.v[4] = <<>>
    /\ \E k \in FloatLogged(<<0>>) : last.log[k].r = Ok([m |-> 10, e |-> -1])
    /\ index(st) = 2

(***************************************************************************)
(* The loops of Repeat, followed round by round: parse() of Repeat over    *)
(* each kind of bound, of the parsers of primitives.rs built on Repeat, and *)
(* of the JSON ValueParser with its list and dict element loops.  The last  *)
(* parser of LoopParsers has an inner parser, Maybe, that succeeds without  *)
(* consuming.                                                              *)
(***************************************************************************)
MaxLoop == 3

LoopAlphabet == {"1", " ", "[", "]"}

LoopInputs == UNION {[1..n -> LoopAlphabet] : n \in 0..MaxLoop} \cup JsonTexts

pOpen == StringParser_new(<<"[">>)
pClose == StringParser_new(<<"]">>)
pSpace == StringParser_new(<<" ">>)

LoopParsers ==
    << ValueParser,
       whitespace,
       string_of(<<"1", "[">>, <<"Any">>),
       string_of(<<"1">>, <<"Between", 1, 2>>),
       string_none_of(<<"\"", " ">>, <<"Min", 1>>),
       Repeat_new(p1, <<"Max", 2>>),
       Repeat_new(p1, <<"Max", 0>>),
       Repeat_new(Sequence_new(<<pOpen, pClose>>), <<"Min", 2>>),
       Repeat_new(Alternative_new(<<p1, pSpace>>), <<"Any">>),
       Repeat_new(Int8_new, <<"Min", 1>>),
       Repeat_new(Repeat_new(p1, <<"Between", 1, 2>>), <<"Any">>),
       Repeat_new(Maybe_new(p1), <<"Any">>) >>

InitLoops == Started(LoopInputs)

\* p.parse(&mut st) begins for one of the parsers
BeginLoops ==
    /\ stopped = "no"
    /\ last.op # "loops"
    /\ calls = <<>>
    /\ \E i \in 1..Len(LoopParsers) :
         calls' = <<[stack |-> <<>>, ix0 |-> index(st),
                     now |-> Calling(LoopParsers[i], <<>>,
                                     [s |-> st, log |-> <<>>, lazy |-> <<>>])]>>
    /\ UNCHANGED <<input, build, lazy, holds, st, stopped, last>>

\* p.parse(&mut st) has returned, or is known not to return
EndLoops ==
    /\ calls # <<>>
    /\ finished_calls(calls[1])
    /\ st' = calls[1].now.o.c.s
    /\ stopped' = IF Returned(calls[1].now.o.r) THEN "no" ELSE calls[1].now.o.r.k
    /\ last' = [op |-> "loops", ix0 |-> calls[1].ix0, r |-> calls[1].now.o.r,
                log |-> calls[1].now.o.c.log]
    /\ calls' = <<>>
    /\ UNCHANGED <<input, build, lazy, holds>>

NextLoops ==
    \/ NextBetween
    \/ BeginLoops
    \/ StepJson
    \/ EndLoops

SpecLoops == InitLoops /\ [][NextLoops]_vars

\* a round of a Repeat has just succeeded: the inner parser has returned Ok
\* to the Repeat that waits innermost
RoundSucceeded ==
    /\ calls # <<>>
    /\ calls[1].stack # <<>>
    /\ calls[1].stack[Len(calls[1].stack)].fr.t = "Repeat"
    /\ calls[1].now.k = "ret"
    /\ calls[1].now.o.r.k = "ok"

\* the Repeat of that round, as it waits, and the outcome of the round
RoundFrame == calls[1].stack[Len(calls[1].stack)].fr
RoundOutcome == calls[1].now.o

\* C33: On a finite input Repeat(p, bound) terminates for every bound when
\* every successful run of p consumes at least one character.  Every
\* successful round of an inner parser other than Maybe (the inner parsers
\* of whitespace(), string_of, string_none_of, of the JSON list and dict
\* element loops and of the Repeats of each kind of bound) leaves index()
\* greater than the round found it; a Repeat whose round has done so has
\* made no more rounds than the characters it has consumed, which are no
\* more than the input has, and goes on to its next round or returns; and a
\* call that does not return has a successful round that consumed nothing
\* just before the point where it stays.
C33_RepeatTerminates ==
    /\ RoundSucceeded =>
         /\ RoundFrame.inner.t # "Maybe"
               => index(RoundOutcome.c.s) > index(RoundFrame.s0)
         /\ index(RoundOutcome.c.s) > index(RoundFrame.s0) =>
               /\ RoundFrame.i + 1 <= index(RoundOutcome.c.s) - RoundFrame.h.ix
               /\ index(RoundOutcome.c.s) <= Len(input)
               /\ LET e == repeat_resumed(RoundFrame, RoundOutcome)
                  IN e.k = "done" => e.o.r.k # "hang"
    /\ (last.op = "loops" /\ last.r.k = "hang") =>
         \E j \in 2..Len(last.log) :
            /\ last.log[j].r.k = "hang"
            /\ last.log[j - 1].r.k = "ok"
            /\ last.log[j - 1].ix1 = last.log[j - 1].ix0
            /\ last.log[j - 1].path = Append(last.log[j].path, 1)

\* C33 witness: on the text [1, "H",] the element loop of the JSON list has
\* made its second successful round, which took the stream from index 3 to
\* index 8
C33_Witness ==
    /\ RoundSucceeded
    /\ input = <<"[", "1", ",", " ", "\"", "H", "\"", ",", "]">>
    /\ RoundFrame.inner = list_inner.inner
    /\ RoundFrame.i = 1
    /\ RoundFrame.h.ix = 1
    /\ index(RoundFrame.s0) = 3
    /\ index(RoundOutcome.c.s) = 8

====
